---- MODULE Spec2Model ----
(***************************************************************************)
(* Model of the invoice pipeline of oz-receipt-fill:                       *)
(*   - FraudDetectionService (src/src/services/fraudDetectionService.ts),  *)
(*   - OCRService.processInvoice in its two source versions                *)
(*     (src/src/services/ocrService.ts and src/unnamed/part_002),          *)
(*   - the page handlers of src/src/pages/Index.tsx.                       *)
(*                                                                         *)
(* Conventions                                                             *)
(*   - a JavaScript string is a sequence of one-character strings;         *)
(*   - an optional value (undefined / null) is a sequence of length 0 or 1;*)
(*   - a FieldSet is a function from a set of key names to strings; a key  *)
(*     outside its domain reads as undefined;                              *)
(*   - money is counted in cents, the fraud score in tenths of a point     *)
(*     (the weights 1.5 and 1.2 are then the integers 15 and 12).          *)
(***************************************************************************)
EXTENDS Integers, Sequences, FiniteSets, TLC

VARIABLES
    \* --- one call of FraudDetectionService.analyzeInvoice ---------------
    engData,        \* the FieldSet argument (as it is after the call)
    engConf,        \* the confidence argument, optional
    engDoc,         \* the documentAnalysis argument, optional
    engResult,      \* the FraudAnalysis returned, optional (none before the call)
    engCalls,       \* number of calls made on these arguments
    \* --- one call of the analyzer (DocumentAnalysisService) -------------
    docFile,        \* the file given to analyzeDocument, optional
    docResult,      \* the DocumentAnalysisResult returned, optional
    simTexts,       \* the two texts given to calculateTextSimilarity, optional
    simResult,      \* the similarity returned, optional
    cmpResult,      \* what compareOcrWithTextLayer returned on the two texts, optional
    \* --- one call of DocumentProcessor.processDocument ------------------
    procFile,       \* the file given to processDocument, optional
    procRun,        \* the call: its position, its locals and what it returned
    \* --- the build and the scenario ------------------------------------
    impl,           \* which OCRService source is built: "ocrService" or "part_002"
    env,            \* the documents at hand and whether uploads may overlap
    \* --- the page (Index.tsx) -------------------------------------------
    mounted,        \* the page is mounted
    uploadedFile,   \* optional file name
    isProcessing,
    processingProgress,
    invoiceData,    \* [fields : FieldSet, fraud : optional FraudAnalysis]
    pageConfidence, \* the page's `confidence` state
    \* --- OCRService ------------------------------------------------------
    worker,         \* the static worker field: optional index into workers
    workers,        \* the Tesseract workers created so far: "unconfigured",
                    \* "ready" or "terminated"
    terminating,    \* terminate() is awaiting worker.terminate()
    run,            \* the calls of handleFileUpload, by upload number
    uploads,        \* number of uploads started
    edits,          \* number of form edits made
    last            \* what the most recently settled upload did (history)

engVars == <<engData, engConf, engDoc, engResult, engCalls>>

docVars == <<docFile, docResult, simTexts, simResult, cmpResult>>

procVars == <<procFile, procRun>>

pageVars == <<mounted, uploadedFile, isProcessing, processingProgress, invoiceData,
              pageConfidence>>

pipeVars == <<impl, env, worker, workers, terminating, run, uploads, edits, last>>

vars == <<engVars, docVars, procVars, pageVars, pipeVars>>

-----------------------------------------------------------------------------
(* Characters and strings *)

Digits == {"0", "1", "2", "3", "4", "5", "6", "7", "8", "9"}

DigitVal(c) ==
    CASE c = "0" -> 0 [] c = "1" -> 1 [] c = "2" -> 2 [] c = "3" -> 3
      [] c = "4" -> 4 [] c = "5" -> 5 [] c = "6" -> 6 [] c = "7" -> 7
      [] c = "8" -> 8 [] c = "9" -> 9

\* \s of the regular expressions
Whitespace == {" ", "\t", "\n"}

\* the index just past the longest run of characters of `set` starting at i
RECURSIVE TakeWhile(_, _, _)
TakeWhile(s, i, set) ==
    IF i <= Len(s) /\ s[i] \in set THEN TakeWhile(s, i + 1, set) ELSE i

\* the decimal value of the digits s[i .. j-1]
RECURSIVE DigitsValue(_, _, _)
DigitsValue(s, i, j) ==
    IF j <= i THEN 0 ELSE DigitsValue(s, i, j - 1) * 10 + DigitVal(s[j - 1])

\* String.prototype.replace(/[...]/g, '') : drop every character of `set`
Strip(s, set) == SelectSeq(s, LAMBDA c : c \notin set)

Abs(x) == IF x < 0 THEN -x ELSE x

\* `const x = e; F(x)`: e is computed once and F works on its value
With(e, F(_)) == CHOOSE result \in {F(x) : x \in {e}} : TRUE

-----------------------------------------------------------------------------
(* JavaScript numbers: NaN / null is [nan |-> TRUE]; v is the value.       *)

NaN == [nan |-> TRUE, v |-> 0]
Num(x) == [nan |-> FALSE, v |-> x]

\* truthiness of a number | null : false for null, NaN and 0
Truthy(n) == ~n.nan /\ n.v # 0

\* the number read from s: the sign and integer digits in s[st .. ie-1]
\* (st = 2 after a sign), the fraction digits in s[fs .. fe-1]
NumberRead(s, st, ie, fs, fe) ==
    IF ie = st /\ fe = fs THEN NaN
    ELSE Num((IF st = 2 /\ s[1] = "-" THEN -1 ELSE 1)
             * (DigitsValue(s, st, ie) * 100
                + (IF fe - fs >= 1 THEN DigitVal(s[fs]) * 10 ELSE 0)
                + (IF fe - fs >= 2 THEN DigitVal(s[fs + 1]) ELSE 0)))

\* parseFloat, in cents: optional sign, digits, optional fraction; the parse
\* stops at the first character that does not fit; NaN when no digit was read.
\* (Fraction digits beyond the second are below the model's unit.)
parseFloat(s) ==
    With(IF Len(s) >= 1 /\ s[1] \in {"-", "+"} THEN 2 ELSE 1, LAMBDA st :
    With(TakeWhile(s, st, Digits), LAMBDA ie :
    With(IF ie <= Len(s) /\ s[ie] = "." THEN ie + 1 ELSE ie, LAMBDA fs :
        NumberRead(s, st, ie, fs, IF fs > ie THEN TakeWhile(s, fs, Digits) ELSE ie))))

\* parseInt: optional sign, digits; NaN when no digit was read
parseInt(s) ==
    With(IF Len(s) >= 1 /\ s[1] \in {"-", "+"} THEN 2 ELSE 1, LAMBDA st :
    With(TakeWhile(s, st, Digits), LAMBDA ie :
        IF ie = st THEN NaN
        ELSE Num((IF st = 2 /\ s[1] = "-" THEN -1 ELSE 1) * DigitsValue(s, st, ie))))

-----------------------------------------------------------------------------
(* FieldSet access *)

\* data.k : the value, or the empty string for an absent key (undefined and
\* '' are both falsy, and every reader below tests truthiness first)
Get(data, k) == IF k \in DOMAIN data THEN data[k] ELSE <<>>

\* { ...a, ...b }
Merge(a, b) ==
    [k \in (DOMAIN a) \cup (DOMAIN b) |-> IF k \in DOMAIN b THEN b[k] ELSE a[k]]

-----------------------------------------------------------------------------
(* FraudDetectionService *)

Indicator(t, f, m, sev) == [type |-> t, field |-> f, message |-> m, severity |-> sev]

\* sum of the severities of a list of indicators
RECURSIVE SumSeverity(_)
SumSeverity(inds) ==
    IF inds = <<>> THEN 0 ELSE Head(inds).severity + SumSeverity(Tail(inds))

\* parseAmount of a string field: null for a falsy value or an unparsable
\* one, else parseFloat of the value without '$', ',' and whitespace.
\* (FieldSet values are strings; the typeof-number branch returns the number.)
parseAmount(value) ==
    IF value = <<>> THEN NaN
    ELSE parseFloat(Strip(value, {"$", ","} \cup Whitespace))

\* a / b * 100 < k  and  a / b * 100 > k  for cent amounts a, b (b # 0),
\* without division
PctLess(a, b, k) == IF b > 0 THEN a * 100 < k * b ELSE a * 100 > k * b
PctMore(a, b, k) == IF b > 0 THEN a * 100 > k * b ELSE a * 100 < k * b

validateMath(data) ==
    LET totalCost    == parseAmount(Get(data, "totalCost"))
        deposit      == parseAmount(Get(data, "deposit"))
        tradeInValue == parseAmount(Get(data, "tradeInValue"))
        balanceOwing == parseAmount(Get(data, "balanceOwing"))
        gst          == parseAmount(Get(data, "gst"))
        expectedBalance ==
            totalCost.v - (IF Truthy(deposit) THEN deposit.v ELSE 0)
                        - (IF Truthy(tradeInValue) THEN tradeInValue.v ELSE 0)
        balance ==
            IF /\ Truthy(totalCost)
               /\ (Truthy(deposit) \/ Truthy(tradeInValue) \/ Truthy(balanceOwing))
               /\ Truthy(balanceOwing)
               /\ Abs(balanceOwing.v - expectedBalance) > 100
            THEN <<Indicator("critical", "balanceOwing", "Balance calculation error", 10)>>
            ELSE <<>>
        rate ==
            IF /\ Truthy(gst) /\ Truthy(totalCost)
               /\ (PctLess(gst.v, totalCost.v, 8) \/ PctMore(gst.v, totalCost.v, 12))
            THEN <<Indicator("warning", "gst", "Unusual GST rate", 6)>>
            ELSE <<>>
        range ==
            IF Truthy(totalCost) /\ (totalCost.v < 1000 * 100 \/ totalCost.v > 500000 * 100)
            THEN <<Indicator("warning", "totalCost", "Vehicle price outside typical range", 4)>>
            ELSE <<>>
    IN  balance \o rate \o range

\* the calendar day y-m-d as one number, ordered as the days are
DayNumber(y, m, d) == y * 10000 + m * 100 + d

\* the analysis time (new Date()), as its UTC day, and its year
Today == DayNumber(2026, 11, 5)
CurrentYear == Today \div 10000

\* new Date(s) for a date-only ISO string YYYY-MM-DD (parsed as UTC midnight);
\* any other text gives an Invalid Date, which compares false with everything
ParseDate(s) ==
    IF /\ Len(s) = 10
       /\ \A i \in {1, 2, 3, 4, 6, 7, 9, 10} : s[i] \in Digits
       /\ s[5] = "-" /\ s[8] = "-"
       /\ DigitsValue(s, 6, 8) \in 1..12
       /\ DigitsValue(s, 9, 11) \in 1..31
    THEN Num(DayNumber(DigitsValue(s, 1, 5), DigitsValue(s, 6, 8), DigitsValue(s, 9, 11)))
    ELSE NaN

\* /^\d{11}$/
IsElevenDigits(s) == Len(s) = 11 /\ \A i \in 1..Len(s) : s[i] \in Digits

\* the variant `data.vin.length < 17`: a longer VIN passes
vinLengthShort(vinv) == vinv # <<>> /\ Len(vinv) < 17

\* data.vin && data.vin.length !== 17
vinLengthInvalid(vinv) == vinv # <<>> /\ Len(vinv) # 17

validateBusinessLogic(data) ==
    LET vinv == Get(data, "vin")
        abn  == Get(data, "abn")
        idate == Get(data, "invoiceDate")
        invoiceDate == ParseDate(idate)
        vehicleYear == parseInt(Get(data, "vehicleYear"))
        odometer    == parseAmount(Get(data, "odometer"))
        vehicleAge  == CurrentYear - vehicleYear.v
        expectedMaxKm == vehicleAge * 25000
        vinI ==
            IF vinLengthInvalid(vinv)
            THEN <<Indicator("critical", "vin", "Invalid VIN length", 9)>> ELSE <<>>
        abnI ==
            IF abn # <<>> /\ ~IsElevenDigits(Strip(abn, Whitespace))
            THEN <<Indicator("warning", "abn", "ABN format appears invalid", 5)>> ELSE <<>>
        futureI ==
            IF idate # <<>> /\ ~invoiceDate.nan /\ invoiceDate.v > Today
            THEN <<Indicator("critical", "invoiceDate", "Invoice date is in the future", 8)>>
            ELSE <<>>
        oldI ==
            IF idate # <<>> /\ ~invoiceDate.nan /\ invoiceDate.v < DayNumber(2010, 1, 1)
            THEN <<Indicator("warning", "invoiceDate", "Very old invoice date", 3)>>
            ELSE <<>>
        yearI ==
            IF Truthy(vehicleYear) /\ (vehicleYear.v < 1990 \/ vehicleYear.v > CurrentYear + 1)
            THEN <<Indicator("warning", "vehicleYear", "Vehicle year outside expected range", 4)>>
            ELSE <<>>
        highI ==
            IF Truthy(odometer) /\ Truthy(vehicleYear) /\ odometer.v > expectedMaxKm * 2 * 100
            THEN <<Indicator("warning", "odometer", "Unusually high odometer reading", 5)>>
            ELSE <<>>
        lowI ==
            IF Truthy(odometer) /\ Truthy(vehicleYear) /\ odometer.v < 100 * 100 /\ vehicleAge > 1
            THEN <<Indicator("warning", "odometer", "Suspiciously low odometer reading", 6)>>
            ELSE <<>>
    IN  vinI \o abnI \o futureI \o oldI \o yearI \o highI \o lowI

\* /^[\d\s\+\(\)\-]{8,}$/
PhoneOk(s) ==
    Len(s) >= 8 /\ \A i \in 1..Len(s) : s[i] \in Digits \cup Whitespace \cup {"+", "(", ")", "-"}

\* /^[^\s@]+@[^\s@]+\.[^\s@]+$/ : no whitespace, exactly one '@', not first,
\* and a '.' after it with at least one character on each side
EmailOk(s) ==
    /\ \A i \in 1..Len(s) : s[i] \notin Whitespace
    /\ \E p \in 2..Len(s) :
          /\ s[p] = "@"
          /\ \A i \in 1..Len(s) : s[i] = "@" => i = p
          /\ \E q \in (p + 2)..(Len(s) - 1) : s[q] = "."

\* /^\d{4}$/
PostcodeOk(s) == Len(s) = 4 /\ \A i \in 1..Len(s) : s[i] \in Digits

validateFormats(data) ==
    LET phone    == Get(data, "phone")
        email    == Get(data, "email")
        postcode == Get(data, "postcode")
        phoneI ==
            IF phone # <<>> /\ ~PhoneOk(phone)
            THEN <<Indicator("info", "phone", "Phone number format may be unusual", 2)>>
            ELSE <<>>
        emailI ==
            IF email # <<>> /\ ~EmailOk(email)
            THEN <<Indicator("warning", "email", "Email format appears invalid", 3)>>
            ELSE <<>>
        postI ==
            IF postcode # <<>> /\ ~PostcodeOk(postcode)
            THEN <<Indicator("info", "postcode", "Postcode format may be invalid", 2)>>
            ELSE <<>>
    IN  phoneI \o emailI \o postI

\* the variant that warns only below 60
confidenceIssuesBelow60(confidence) ==
    IF confidence # <<>> /\ confidence[1] < 60
    THEN <<Indicator("warning", "general", "Low OCR confidence",
                     IF confidence[1] < 50 THEN 8 ELSE 5)>>
    ELSE <<>>

\* the confidence step: the indicator and the flat penalty (in points)
confidenceIssues(confidence) ==
    IF confidence # <<>> /\ confidence[1] < 70
    THEN <<Indicator("warning", "general", "Low OCR confidence",
                     IF confidence[1] < 50 THEN 8 ELSE 5)>>
    ELSE <<>>

confidencePenalty(confidence) ==
    IF confidence # <<>> /\ confidence[1] < 70
    THEN (IF confidence[1] < 50 THEN 16 ELSE 10)
    ELSE 0

\* documentAnalysis?.suspiciousIndicators, or the empty list when there is
\* no analysis
integrityIssues(documentAnalysis) ==
    IF documentAnalysis # <<>> THEN documentAnalysis[1].suspiciousIndicators ELSE <<>>

Max(a, b) == IF a > b THEN a ELSE b
Min(a, b) == IF a < b THEN a ELSE b

\* the variant that weighs the business issues like the format issues
baseScoreFlatBusiness(mathIssues, businessIssues, penalty, formatIssues, integrity) ==
    1000 - 20 * SumSeverity(mathIssues)
         - 10 * SumSeverity(businessIssues)
         - 10 * penalty
         - 10 * SumSeverity(formatIssues)
         - 12 * SumSeverity(integrity)

\* baseScore after all subtractions, in tenths of a point, from the issue
\* lists of the four steps and the flat confidence penalty (in points)
baseScore(mathIssues, businessIssues, penalty, formatIssues, integrity) ==
    1000 - 20 * SumSeverity(mathIssues)
         - 15 * SumSeverity(businessIssues)
         - 10 * penalty
         - 10 * SumSeverity(formatIssues)
         - 12 * SumSeverity(integrity)

\* the variant Math.min(100, baseScore): no lower bound
clampScoreAbove(score) == Min(1000, score)

\* Math.max(0, Math.min(100, baseScore)), in tenths
clampScore(score) == Max(0, Min(1000, score))

riskLevelOf(fraudScore) ==
    IF fraudScore >= 800 THEN "low" ELSE IF fraudScore >= 500 THEN "medium" ELSE "high"

FraudAnalysis(fraudScore, indicators) ==
    [fraudScore      |-> fraudScore,
     fraudIndicators |-> indicators,
     riskLevel       |-> riskLevelOf(fraudScore)]

\* the FraudAnalysis returned by analyzeInvoice (each step runs once: its
\* issue list is bound as a value)
analyzeInvoice(data, confidence, documentAnalysis) ==
    CHOOSE analysis \in
        {FraudAnalysis(
            clampScore(baseScore(mathIssues, businessIssues,
                                 confidencePenalty(confidence), formatIssues, integrity)),
            mathIssues \o businessIssues \o confidenceIssues(confidence)
                \o formatIssues \o integrity) :
                mathIssues     \in {validateMath(data)},
                businessIssues \in {validateBusinessLogic(data)},
                formatIssues   \in {validateFormats(data)},
                integrity      \in {integrityIssues(documentAnalysis)}} : TRUE

\* the variant `indicators = documentAnalysis.suspiciousIndicators`: the
\* result list is the analysis' own list, which the call then grows
analyzeInvoiceArgsAliased(data, confidence, documentAnalysis) ==
    [data |-> data,
     documentAnalysis |->
        IF documentAnalysis = <<>> THEN <<>>
        ELSE <<[documentAnalysis[1] EXCEPT !.suspiciousIndicators =
                  analyzeInvoice(data, confidence, documentAnalysis).fraudIndicators]>>]

\* what a call of analyzeInvoice leaves in its two object arguments: both
\* are only read (the indicators are spread into a fresh array)
analyzeInvoiceArgsAfter(data, confidence, documentAnalysis) ==
    [data |-> data, documentAnalysis |-> documentAnalysis]

-----------------------------------------------------------------------------
(* OCRService.parseAustralianInvoice: the regular expressions, evaluated   *)
(* on the text as String.prototype.match does (leftmost match, greedy).    *)

UpperLetters == <<"A", "B", "C", "D", "E", "F", "G", "H", "I", "J", "K", "L", "M",
                  "N", "O", "P", "Q", "R", "S", "T", "U", "V", "W", "X", "Y", "Z">>
LowerLetters == <<"a", "b", "c", "d", "e", "f", "g", "h", "i", "j", "k", "l", "m",
                  "n", "o", "p", "q", "r", "s", "t", "u", "v", "w", "x", "y", "z">>
Letters == {UpperLetters[i] : i \in 1..26} \cup {LowerLetters[i] : i \in 1..26}

\* one character, lower-cased (the /i flag)
Lower(c) ==
    IF \E i \in 1..26 : UpperLetters[i] = c
    THEN LowerLetters[CHOOSE i \in 1..26 : UpperLetters[i] = c]
    ELSE c

SubSeqFrom(s, i, j) == IF j < i THEN <<>> ELSE SubSeq(s, i, j)

\* the literal `label` stands in s at index i, ignoring case
LabelAt(s, i, label) ==
    /\ i + Len(label) - 1 <= Len(s)
    /\ \A j \in 1..Len(label) : Lower(s[i + j - 1]) = Lower(label[j])

\* the least element of a nonempty set of integers
Least(S) == CHOOSE x \in S : \A y \in S : x <= y

\* [:\s]*\$?([\d,]+\.?\d*) tried at index p: the bounds <<from, to>> of the
\* capture, or <<>> when it does not match there
AmountAt(s, p) ==
    With(TakeWhile(s, p, {":"} \cup Whitespace), LAMBDA q :
    With(IF q <= Len(s) /\ s[q] = "$" THEN q + 1 ELSE q, LAMBDA c :
    With(TakeWhile(s, c, Digits \cup {","}), LAMBDA e1 :
        IF e1 = c THEN <<>>
        ELSE <<c, TakeWhile(s, IF e1 <= Len(s) /\ s[e1] = "." THEN e1 + 1 ELSE e1,
                            Digits) - 1>>)))

\* text.match(/<label>[:\s]*\$?([\d,]+\.?\d*)/i) for one of several labels
\* (no two of which match at the same index): the capture of the leftmost
\* match, optional
MatchAmount(s, labels) ==
    With({i \in 1..Len(s) :
             \E l \in labels : LabelAt(s, i, l) /\ AmountAt(s, i + Len(l)) # <<>>},
         LAMBDA hits :
            IF hits = {} THEN <<>>
            ELSE With(Least(hits), LAMBDA i :
                 With(CHOOSE l \in labels : LabelAt(s, i, l), LAMBDA l :
                 With(AmountAt(s, i + Len(l)), LAMBDA b :
                     <<SubSeqFrom(s, b[1], b[2])>>))))

\* (?:\s+incl\s+GST) at index p: the index just past it, or 0
InclGstAt(s, p) ==
    With(TakeWhile(s, p, Whitespace), LAMBDA w1 :
    With(TakeWhile(s, w1 + 4, Whitespace), LAMBDA w2 :
        IF /\ w1 > p /\ LabelAt(s, w1, <<"i", "n", "c", "l">>)
           /\ w2 > w1 + 4 /\ LabelAt(s, w2, <<"G", "S", "T">>)
        THEN w2 + 3 ELSE 0))

\* Total(?:\s+incl\s+GST)?[:\s]*\$?([\d,]+\.?\d*) at index i: the bounds of
\* the capture or <<>>; the optional group is tried first
TotalAt(s, i) ==
    IF ~LabelAt(s, i, <<"T", "o", "t", "a", "l">>) THEN <<>>
    ELSE With(InclGstAt(s, i + 5), LAMBDA g :
         With(IF g # 0 THEN AmountAt(s, g) ELSE <<>>, LAMBDA withGroup :
             IF withGroup # <<>> THEN withGroup ELSE AmountAt(s, i + 5)))

\* text.match(/Total(?:\s+incl\s+GST)?[:\s]*\$?([\d,]+\.?\d*)/i)
MatchTotal(s) ==
    With({i \in 1..Len(s) : TotalAt(s, i) # <<>>}, LAMBDA hits :
        IF hits = {} THEN <<>>
        ELSE With(TotalAt(s, Least(hits)), LAMBDA b : <<SubSeqFrom(s, b[1], b[2])>>))

\* \d{2}\s\d{3}\s\d{3}\s\d{3} at index c
AbnAt(s, c) ==
    /\ c + 13 <= Len(s)
    /\ \A k \in {0, 1, 3, 4, 5, 7, 8, 9, 11, 12, 13} : s[c + k] \in Digits
    /\ \A k \in {2, 6, 10} : s[c + k] \in Whitespace

\* text.match(/ABN[:\s]*(\d{2}\s\d{3}\s\d{3}\s\d{3})/i)
MatchAbn(s) ==
    LET start(i) == TakeWhile(s, i + 3, {":"} \cup Whitespace)
    IN  With({i \in 1..Len(s) : LabelAt(s, i, <<"A", "B", "N">>) /\ AbnAt(s, start(i))},
             LAMBDA hits :
                IF hits = {} THEN <<>>
                ELSE With(start(Least(hits)), LAMBDA c : <<SubSeqFrom(s, c, c + 13)>>))

\* \d{1,2}[\/\-]\d{1,2}[\/\-]\d{4} at index i, with n1 and n2 digits in the
\* first two groups
DateAt(s, i, n1, n2) ==
    /\ i + n1 + n2 + 5 <= Len(s)
    /\ \A k \in 0..(n1 - 1) : s[i + k] \in Digits
    /\ s[i + n1] \in {"/", "-"}
    /\ \A k \in 1..n2 : s[i + n1 + k] \in Digits
    /\ s[i + n1 + n2 + 1] \in {"/", "-"}
    /\ \A k \in 2..5 : s[i + n1 + n2 + k] \in Digits

\* padStart(2, '0')
PadStart2(s) == IF Len(s) < 2 THEN <<"0">> \o s ELSE s

\* the match at i with n1 and n2 digits in the first two groups, rewritten
\* as `${year}-${month}-${day}` with two-digit month and day
DateRewritten(s, i, n1, n2) ==
    SubSeq(s, i + n1 + n2 + 2, i + n1 + n2 + 5)
        \o <<"-">> \o PadStart2(SubSeq(s, i + n1 + 1, i + n1 + n2))
        \o <<"-">> \o PadStart2(SubSeq(s, i, i + n1 - 1))

\* text.match(/(\d{1,2}[\/\-]\d{1,2}[\/\-]\d{4})/), read as day/month/year
MatchDate(s) ==
    With({i \in 1..Len(s) : \E n1, n2 \in 1..2 : DateAt(s, i, n1, n2)}, LAMBDA hits :
        IF hits = {} THEN <<>>
        ELSE With(Least(hits), LAMBDA i :
             \* greedy: two digits are tried before one
             With(IF \E n2 \in 1..2 : DateAt(s, i, 2, n2) THEN 2 ELSE 1, LAMBDA n1 :
                 <<DateRewritten(s, i, n1, IF DateAt(s, i, n1, 2) THEN 2 ELSE 1)>>)))

\* text.match(/(?:VIN|Chassis)[:\s]*([A-Z0-9]{17})/i)
MatchVin(s) ==
    LET labels == {<<"V", "I", "N">>, <<"C", "h", "a", "s", "s", "i", "s">>}
        start(i, l) == TakeWhile(s, i + Len(l), {":"} \cup Whitespace)
        ok(i, l) ==
            /\ LabelAt(s, i, l)
            /\ With(start(i, l), LAMBDA c :
                   /\ c + 16 <= Len(s)
                   /\ \A k \in 0..16 : s[c + k] \in Digits \cup Letters)
    IN  With({i \in 1..Len(s) : \E l \in labels : ok(i, l)}, LAMBDA hits :
            IF hits = {} THEN <<>>
            ELSE With(Least(hits), LAMBDA i :
                 With(start(i, CHOOSE l \in labels : ok(i, l)), LAMBDA c :
                     <<SubSeq(s, c, c + 16)>>)))

\* text.match(/(20\d{2})/)
MatchYear(s) ==
    With({i \in 1..(Len(s) - 3) :
             s[i] = "2" /\ s[i + 1] = "0" /\ s[i + 2] \in Digits /\ s[i + 3] \in Digits},
         LAMBDA hits :
            IF hits = {} THEN <<>>
            ELSE With(Least(hits), LAMBDA i : <<SubSeq(s, i, i + 3)>>))

\* the partial FieldSet with one key per capture that matched
FieldOf(k, capture) == IF capture = <<>> THEN <<>> ELSE <<[key |-> k, value |-> capture[1]]>>

\* The captures that write the keys the page and the scoring engine work
\* with. (The captures of purchasePrice, invoiceNumber, vehicleMake/Model,
\* bodyType, transmission, fuelType, color, engineNumber, registration, state
\* and vendorName follow the same pattern and write keys no check reads.)
parseAustralianInvoice(text) ==
    With(FieldOf("vendorAbn", MatchAbn(text))
            \o FieldOf("gstAmount", MatchAmount(text, {<<"G", "S", "T">>}))
            \o FieldOf("totalCost", MatchTotal(text))
            \o FieldOf("deposit", MatchAmount(text, {<<"D", "e", "p", "o", "s", "i", "t">>}))
            \o FieldOf("purchaseDate", MatchDate(text))
            \o FieldOf("vin", MatchVin(text))
            \o FieldOf("vehicleYear", MatchYear(text)),
         LAMBDA found :
            [k \in {found[i].key : i \in 1..Len(found)} |->
                (CHOOSE f \in {found[i] : i \in 1..Len(found)} : f.key = k).value])

-----------------------------------------------------------------------------
(* DocumentAnalysisService (src/unnamed/part_000)                          *)
(*                                                                         *)
(* A file is described by what the libraries report for it:                *)
(*   isPdf        media type / extension                                   *)
(*   pdfError     "none", or where pdf.js throws: "load" (getDocument),    *)
(*                "page" (getPage), "text" (getTextContent, which the page *)
(*                rendering does not call) or "annotations"                *)
(*                (getAnnotations, which only the analyzer calls)          *)
(*   layer        the text of the embedded text layer ('' when none)       *)
(*   meta         creationDate, modificationDate (hours, optional),        *)
(*                creator, producer, title (optional)                      *)
(*   fonts        per font of page 1: fontName and the y positions         *)
(*   annotations  number of annotations of page 1                          *)
(*   recent       an image last modified within a minute of the analysis   *)
(*   scan         the text the OCR engine reads off the page in "fast" and *)
(*                in "thorough" mode (optional: none when recognize throws)*)

\* the analysis time, in hours
NowHours == 24 * 1000

\* SUSPICIOUS_SOFTWARE.find(s => software.toLowerCase().includes(s)) for the
\* creator / producer strings of the catalogue: the entry found, optional
suspiciousMatch(software) ==
    CASE software = "PDF Editor Pro"     -> <<"pdf editor">>
      [] software = "iLovePDF"           -> <<"ilovepdf">>
      [] software = "DocuSign Envelope"  -> <<"docusign">>
      [] OTHER                           -> <<>>

\* suspiciousMatch.includes('editor') || suspiciousMatch.includes('sign')
namesEditorOrSign(entry) == entry \in {"pdf editor", "docusign", "hellosign", "adobe sign"}

\* suspiciousPatterns.some(p => title.toLowerCase().includes(p)) for the
\* titles of the catalogue
genericTitle(title) == title \in {"Untitled", "Invoice 42", "test"}

softwareIndicators(fields) ==
    LET one(software) ==
            IF suspiciousMatch(software) = <<>> THEN <<>>
            ELSE <<Indicator("metadata-tampering", "software-signature",
                             "Document created/modified with editing software",
                             IF namesEditorOrSign(suspiciousMatch(software)[1]) THEN 7 ELSE 5)>>
    IN  (IF Len(fields) >= 1 THEN one(fields[1]) ELSE <<>>)
        \o (IF Len(fields) >= 2 THEN one(fields[2]) ELSE <<>>)

analyzeMetadataForTampering(metadata) ==
    LET c == metadata.creationDate
        m == metadata.modificationDate
        both == c # <<>> /\ m # <<>>
        late ==
            IF both /\ m[1] - c[1] > 24
            THEN <<Indicator("metadata-tampering", "modification-date",
                             "Document was modified days after creation", 6)>>
            ELSE <<>>
        future ==
            IF both /\ m[1] > NowHours
            THEN <<Indicator("metadata-tampering", "modification-date",
                             "Document modification date is in the future", 8)>>
            ELSE <<>>
        missing ==
            IF c = <<>> /\ m = <<>>
            THEN <<Indicator("metadata-tampering", "missing-metadata",
                             "Document has no creation or modification timestamps", 4)>>
            ELSE <<>>
        title ==
            IF metadata.title # <<>> /\ genericTitle(metadata.title[1])
            THEN <<Indicator("metadata-tampering", "document-title",
                             "Generic document title", 3)>>
            ELSE <<>>
    IN  late \o future \o softwareIndicators(metadata.creator \o metadata.producer)
        \o missing \o title

RECURSIVE SumSeq(_)
SumSeq(xs) == IF xs = <<>> THEN 0 ELSE Head(xs) + SumSeq(Tail(xs))

\* calculateVariance(ys) > 100, without division:
\* sum((y - mean)^2) / n > 100  <=>  n * sum(y^2) - (sum y)^2 > 100 * n^2
varianceAbove100(ys) ==
    LET n  == Len(ys)
        sq == [i \in 1..n |-> ys[i] * ys[i]]
    IN  n * SumSeq(sq) - SumSeq(ys) * SumSeq(ys) > 100 * n * n

\* commonFonts.some(common => font.toLowerCase().includes(common)) for the
\* font names of the catalogue
commonFont(fontName) == fontName \in {"Arial", "Helvetica-Bold", "TimesNewRoman"}

RECURSIVE alignmentIndicators(_)
alignmentIndicators(fontAnalysis) ==
    IF fontAnalysis = <<>> THEN <<>>
    ELSE (IF /\ Len(Head(fontAnalysis).positions) > 10
             /\ varianceAbove100(Head(fontAnalysis).positions)
          THEN <<Indicator("visual-inconsistency", "text-alignment",
                           "Inconsistent text alignment detected", 4)>>
          ELSE <<>>)
         \o alignmentIndicators(Tail(fontAnalysis))

analyzeFontConsistency(fontAnalysis) ==
    LET uniqueFonts == {fontAnalysis[i].fontName : i \in 1..Len(fontAnalysis)}
        variety ==
            IF Cardinality(uniqueFonts) > 5
            THEN <<Indicator("visual-inconsistency", "font-variety",
                             "Document uses many different fonts", 5)>>
            ELSE <<>>
        uncommon ==
            IF \E f \in uniqueFonts : ~commonFont(f)
            THEN <<Indicator("visual-inconsistency", "font-type",
                             "Unusual fonts detected", 4)>>
            ELSE <<>>
    IN  variety \o uncommon \o alignmentIndicators(fontAnalysis)

GenericFailure ==
    Indicator("metadata-tampering", "general",
              "Could not analyze document metadata", 4)

\* analyzePdfDocument: the indicators pushed, in order, up to the point where
\* pdf.js throws (pdfError), and whether it threw
analyzePdfDocument(file) ==
    LET metaI  == analyzeMetadataForTampering(file.meta)
        fontI  == IF file.layer # <<>> THEN analyzeFontConsistency(file.fonts) ELSE <<>>
        annotI == IF file.annotations > 0
                  THEN <<Indicator("visual-inconsistency", "document-structure",
                                   "Document contains annotation(s)", 3)>>
                  ELSE <<>>
    IN  CASE file.pdfError = "load" ->
                [threw |-> TRUE, hasTextLayer |-> FALSE, textLayerText |-> <<>>,
                 suspiciousIndicators |-> <<>>]
          [] file.pdfError \in {"page", "text"} ->
                [threw |-> TRUE, hasTextLayer |-> FALSE, textLayerText |-> <<>>,
                 suspiciousIndicators |-> metaI]
          [] file.pdfError = "annotations" ->
                [threw |-> TRUE, hasTextLayer |-> file.layer # <<>>,
                 textLayerText |-> file.layer,
                 suspiciousIndicators |-> metaI \o fontI]
          [] OTHER ->
                [threw |-> FALSE, hasTextLayer |-> file.layer # <<>>,
                 textLayerText |-> file.layer,
                 suspiciousIndicators |-> metaI \o fontI \o annotI]

analyzeImageDocument(file) ==
    [threw |-> FALSE, hasTextLayer |-> FALSE, textLayerText |-> <<>>,
     suspiciousIndicators |->
        IF file.recent
        THEN <<Indicator("metadata-tampering", "file-timestamp",
                         "File was modified very recently", 5)>>
        ELSE <<>>]

\* analyzeDocument: the DocumentAnalysisResult the promise resolves with
\* (textLayerText is the empty string when the result has none)
analyzeDocument(file) ==
    With(IF file.isPdf THEN analyzePdfDocument(file) ELSE analyzeImageDocument(file),
         LAMBDA r :
            [hasTextLayer  |-> r.hasTextLayer,
             textLayerText |-> r.textLayerText,
             suspiciousIndicators |->
                IF r.threw THEN r.suspiciousIndicators \o <<GenericFailure>>
                ELSE r.suspiciousIndicators])

\* \w of the regular expressions
WordChars == Letters \cup Digits \cup {"_"}

\* .replace(/\s+/g, ' ') : every run of whitespace becomes one space (the
\* first character of a run becomes the space, the others are dropped)
CollapseSpaces(s) ==
    LET marked == [i \in 1..Len(s) |->
                      IF s[i] \notin Whitespace THEN s[i]
                      ELSE IF i > 1 /\ s[i - 1] \in Whitespace THEN "" ELSE " "]
    IN  SelectSeq(marked, LAMBDA c : c # "")

\* .trim() of a string whose whitespace runs are single spaces
TrimSpaces(s) ==
    LET a == IF s # <<>> /\ s[1] = " " THEN 2 ELSE 1
        b == IF s # <<>> /\ s[Len(s)] = " " THEN Len(s) - 1 ELSE Len(s)
    IN  SubSeqFrom(s, a, b)

\* normalizeText: lower case, non-word characters to spaces, whitespace
\* collapsed, trimmed
normalizeText(text) ==
    TrimSpaces(CollapseSpaces(
        [i \in 1..Len(text) |->
            IF text[i] \in WordChars \cup Whitespace THEN Lower(text[i]) ELSE " "]))

Min3(a, b, c) == Min(a, Min(b, c))

\* The matrix is filled row by row (j over str2), each row left to right
\* (i over str1); a row holds the columns 0..Len(str1) at the indices
\* 1..Len(str1)+1, so column 0 of row j is j. Both loops are written as
\* folds over an index range that is split in halves, so that the nesting
\* stays logarithmic; the intermediate rows are bound as values
\* (x \in {e}), so that each is computed once.

\* row j filled up to column hi, from cur, which holds its columns before
\* Len(cur); prev is row j-1, s1 is str1 and ch is str2[j]
RECURSIVE levenshteinRow(_, _, _, _, _)
levenshteinRow(prev, cur, s1, ch, hi) ==
    LET i == Len(cur)    \* the next column to fill
    IN  IF i > hi THEN cur
        ELSE IF i = hi
        THEN Append(cur, Min3(cur[i] + 1,
                              prev[i + 1] + 1,
                              prev[i] + (IF s1[i] = ch THEN 0 ELSE 1)))
        ELSE CHOOSE row \in
                 {levenshteinRow(prev, left, s1, ch, hi) :
                     left \in {levenshteinRow(prev, cur, s1, ch, (i + hi) \div 2)}} : TRUE

\* row hi, from prev, which is the row before row j
RECURSIVE levenshteinRows(_, _, _, _)
levenshteinRows(prev, s1, s2, hi) ==
    LET j == prev[1] + 1    \* the next row to fill
    IN  IF j > hi THEN prev
        ELSE IF j = hi
        THEN levenshteinRow(prev, <<j>>, s1, s2[j], Len(s1))
        ELSE CHOOSE row \in
                 {levenshteinRows(upper, s1, s2, hi) :
                     upper \in {levenshteinRows(prev, s1, s2, (j + hi) \div 2)}} : TRUE

levenshteinDistance(str1, str2) ==
    CHOOSE d \in
        {levenshteinRows(row0, a, b, Len(b))[Len(a) + 1] :
            row0 \in {[i \in 1..(Len(str1) + 1) |-> i - 1]},
            a \in {str1}, b \in {str2}} : TRUE

\* the variant that measures the distance against the first text instead of
\* the longer one
calculateTextSimilarityOfFirst(text1, text2) ==
    LET n == Len(text1)
        d == levenshteinDistance(text1, text2)
    IN  IF n = 0 THEN 100 ELSE (200 * (n - d) + n) \div (2 * n)

\* Math.round(((longer.length - editDistance) / longer.length) * 100)
calculateTextSimilarity(text1, text2) ==
    LET longer  == IF Len(text1) > Len(text2) THEN text1 ELSE text2
        shorter == IF Len(text1) > Len(text2) THEN text2 ELSE text1
        n == Len(longer)
        d == levenshteinDistance(longer, shorter)
    IN  IF n = 0 THEN 100 ELSE (200 * (n - d) + n) \div (2 * n)

\* (text.match(/\d+/g) || []).length : the number of maximal runs of digits
countNumbers(s) ==
    Cardinality({i \in 1..Len(s) : s[i] \in Digits /\ (i = 1 \/ s[i - 1] \notin Digits)})

\* the variant that reports the text mismatch only below 50
comparisonIndicatorsBelow50(similarity, ocrNumbers, textLayerNumbers) ==
    (IF similarity < 50
     THEN <<Indicator("text-layer-mismatch", "text-consistency",
                      "OCR text differs significantly from embedded text", 8)>>
     ELSE <<>>)
    \o (IF ocrNumbers # textLayerNumbers
        THEN <<Indicator("text-layer-mismatch", "numerical-data",
                         "Different number of numerical values", 7)>>
        ELSE <<>>)

\* the indicators of a comparison with the given similarity and number counts
comparisonIndicators(similarity, ocrNumbers, textLayerNumbers) ==
    (IF similarity < 70
     THEN <<Indicator("text-layer-mismatch", "text-consistency",
                      "OCR text differs significantly from embedded text",
                      IF similarity < 50 THEN 8 ELSE 6)>>
     ELSE <<>>)
    \o (IF ocrNumbers # textLayerNumbers
        THEN <<Indicator("text-layer-mismatch", "numerical-data",
                         "Different number of numerical values", 7)>>
        ELSE <<>>)

compareOcrWithTextLayer(ocrText, textLayerText) ==
    IF textLayerText = <<>> THEN [similarity |-> 100, indicators |-> <<>>]
    ELSE With(normalizeText(ocrText), LAMBDA normalizedOcr :
         With(normalizeText(textLayerText), LAMBDA normalizedTextLayer :
         With(calculateTextSimilarity(normalizedOcr, normalizedTextLayer), LAMBDA similarity :
             [similarity |-> similarity,
              indicators |-> comparisonIndicators(similarity,
                                 countNumbers(normalizedOcr),
                                 countNumbers(normalizedTextLayer))])))

-----------------------------------------------------------------------------
(* The texts of the document catalogue *)

\* "TAX INVOICE 1001 Smith Motors Pty Ltd ABN: 12 345 678 901 Date 15/03/2024 Total: $50,000.00 GST $4,545.45 Deposit: $5,000.00" (124 characters)
TextInvoice ==
    <<"T", "A", "X", " ", "I", "N", "V", "O", "I", "C", "E", " ", "1", "0", "0", "1", " ", "S",
      "m", "i", "t", "h", " ", "M", "o", "t", "o", "r", "s", " ", "P", "t", "y", " ", "L", "t",
      "d", " ", "A", "B", "N", ":", " ", "1", "2", " ", "3", "4", "5", " ", "6", "7", "8", " ",
      "9", "0", "1", " ", "D", "a", "t", "e", " ", "1", "5", "/", "0", "3", "/", "2", "0", "2",
      "4", " ", "T", "o", "t", "a", "l", ":", " ", "$", "5", "0", ",", "0", "0", "0", ".", "0",
      "0", " ", "G", "S", "T", " ", "$", "4", ",", "5", "4", "5", ".", "4", "5", " ", "D", "e",
      "p", "o", "s", "i", "t", ":", " ", "$", "5", ",", "0", "0", "0", ".", "0", "0">>

\* "TAX INVOICE 1002 Smith Motors Pty Ltd ABN: 12 345 678 901 Date 5/1/2030 Total: $50,000.00 GST $20,000.00 Deposit: $5,000.00" (123 characters)
TextSuspect ==
    <<"T", "A", "X", " ", "I", "N", "V", "O", "I", "C", "E", " ", "1", "0", "0", "2", " ", "S",
      "m", "i", "t", "h", " ", "M", "o", "t", "o", "r", "s", " ", "P", "t", "y", " ", "L", "t",
      "d", " ", "A", "B", "N", ":", " ", "1", "2", " ", "3", "4", "5", " ", "6", "7", "8", " ",
      "9", "0", "1", " ", "D", "a", "t", "e", " ", "5", "/", "1", "/", "2", "0", "3", "0", " ",
      "T", "o", "t", "a", "l", ":", " ", "$", "5", "0", ",", "0", "0", "0", ".", "0", "0", " ",
      "G", "S", "T", " ", "$", "2", "0", ",", "0", "0", "0", ".", "0", "0", " ", "D", "e", "p",
      "o", "s", "i", "t", ":", " ", "$", "5", ",", "0", "0", "0", ".", "0", "0">>

\* "Total: 50,000.00 GST: 20,000.00 1/2/2030" (40 characters)
TextForty ==
    <<"T", "o", "t", "a", "l", ":", " ", "5", "0", ",", "0", "0", "0", ".", "0", "0", " ", "G",
      "S", "T", ":", " ", "2", "0", ",", "0", "0", "0", ".", "0", "0", " ", "1", "/", "2", "/",
      "2", "0", "3", "0">>

\* "Total: 1,000.00" (15 characters)
TextFifteen ==
    <<"T", "o", "t", "a", "l", ":", " ", "1", ",", "0", "0", "0", ".", "0", "0">>

\* "Page 1 of 1 ---" (15 characters)
TextStamp ==
    <<"P", "a", "g", "e", " ", "1", " ", "o", "f", " ", "1", " ", "-", "-", "-">>

-----------------------------------------------------------------------------
(* The environment: the documents a user may upload and the answers the    *)
(* parse-invoice edge function may give.                                   *)

FileNames ==
    {"scan.png", "blurry.png", "faint.jpg", "broken.png",
     "digital.pdf", "scanned.pdf", "garbled.pdf", "corrupt.pdf"}

NoMeta ==
    [creationDate |-> <<>>, modificationDate |-> <<>>, creator |-> <<>>,
     producer |-> <<>>, title |-> <<>>]

ImageFile(recent, fast, thorough) ==
    [isPdf |-> FALSE, pdfError |-> "none", layer |-> <<>>, meta |-> NoMeta,
     fonts |-> <<>>, annotations |-> 0, recent |-> recent,
     scan |-> [fast |-> fast, thorough |-> thorough]]

PdfFile(pdfError, layer, meta, fonts, annotations, fast, thorough) ==
    [isPdf |-> TRUE, pdfError |-> pdfError, layer |-> layer, meta |-> meta,
     fonts |-> fonts, annotations |-> annotations, recent |-> FALSE,
     scan |-> [fast |-> fast, thorough |-> thorough]]

\* what the libraries report for each document of the catalogue
File(name) ==
    CASE name = "scan.png" ->
            \* a clean photograph: the fast pass reads the whole invoice
            ImageFile(FALSE, <<TextInvoice>>, <<TextInvoice>>)
      [] name = "blurry.png" ->
            \* the fast pass reads 40 characters, the thorough pass all
            ImageFile(TRUE, <<TextForty>>, <<TextSuspect>>)
      [] name = "faint.jpg" ->
            \* the fast pass reads 15 characters, the thorough pass 40
            ImageFile(FALSE, <<TextFifteen>>, <<TextForty>>)
      [] name = "broken.png" ->
            \* worker.recognize rejects
            ImageFile(FALSE, <<>>, <<>>)
      [] name = "digital.pdf" ->
            \* a PDF with a 40-character text layer, edited 100 hours after
            \* it was created; the OCR engine reads the same 40 characters
            PdfFile("none", TextForty,
                    [creationDate |-> <<NowHours - 1000>>,
                     modificationDate |-> <<NowHours - 900>>,
                     creator |-> <<"iLovePDF">>, producer |-> <<>>,
                     title |-> <<"Invoice 42">>],
                    <<[fontName |-> "Arial", positions |-> <<700, 680, 660>>]>>, 0,
                    <<TextForty>>, <<TextForty>>)
      [] name = "scanned.pdf" ->
            \* a scanned PDF whose text layer is a 15-character page stamp
            PdfFile("none", TextStamp, NoMeta,
                    <<[fontName |-> "Courier", positions |-> <<20>>]>>, 1,
                    <<TextForty>>, <<TextInvoice>>)
      [] name = "garbled.pdf" ->
            \* a PDF whose pages render but whose text content cannot be
            \* read: getTextContent throws
            PdfFile("text", <<>>, NoMeta, <<>>, 0, <<TextForty>>, <<TextInvoice>>)
      [] OTHER ->
            \* "corrupt.pdf": pdf.js cannot load the document
            PdfFile("load", <<>>, NoMeta, <<>>, 0, <<TextForty>>, <<TextForty>>)

\* a FieldSet from a list of [key, value] entries
FieldSetOf(entries) ==
    [k \in {entries[i].key : i \in 1..Len(entries)} |->
        (CHOOSE e \in {entries[i] : i \in 1..Len(entries)} : e.key = k).value]

KV(k, v) == [key |-> k, value |-> v]

\* a consistent invoice, under the field names of the edge function's prompt
AiFieldsClean ==
    FieldSetOf(<<KV("totalCost", <<"5", "0", "0", "0", "0">>), KV("deposit", <<"5", "0", "0", "0">>),
                 KV("tradeInValue", <<"1", "0", "0", "0", "0">>), KV("balanceOwing", <<"3", "5", "0", "0", "0">>),
                 KV("gstAmount", <<"4", "5", "4", "5", ".", "4", "5">>), KV("vin", <<"1", "H", "G", "C", "M", "8", "2", "6", "3", "3", "A", "0", "0", "4", "3", "5", "2">>),
                 KV("vendorAbn", <<"1", "2", " ", "3", "4", "5", " ", "6", "7", "8", " ", "9", "0", "1">>), KV("purchaseDate", <<"2", "0", "2", "4", "-", "0", "3", "-", "1", "5">>),
                 KV("vehicleYear", <<"2", "0", "2", "3">>), KV("odometer", <<"1", "5", "0", "0", "0">>)>>)

\* an invoice with a 40% GST amount, a 3-digit ABN, a date in 2030, a zero
\* balance against a 45,000 expectation, and a 6-character VIN
AiFieldsSuspect ==
    FieldSetOf(<<KV("totalCost", <<"5", "0", "0", "0", "0">>), KV("deposit", <<"5", "0", "0", "0">>),
                 KV("tradeInValue", <<>>), KV("balanceOwing", <<"0">>),
                 KV("gstAmount", <<"2", "0", "0", "0", "0">>), KV("vin", <<"A", "B", "C", "1", "2", "3">>),
                 KV("vendorAbn", <<"1", "2", "3">>), KV("purchaseDate", <<"2", "0", "3", "0", "-", "0", "1", "-", "0", "5">>),
                 KV("vehicleYear", <<"2", "0", "2", "3">>), KV("odometer", <<"1", "5", "0", "0", "0">>)>>)

EmptyFieldSet == FieldSetOf(<<>>)

\* the outcomes of supabase.functions.invoke('parse-invoice'): the call
\* throws, resolves with an error, or resolves with data (null, or the
\* function's JSON answer; its error answer has confidence 0 and no fields)
AiOutcomes ==
    {[kind |-> "throws", aiResult |-> <<>>],
     [kind |-> "error",  aiResult |-> <<>>],
     [kind |-> "data",   aiResult |-> <<>>],
     [kind |-> "data",   aiResult |-> <<[data |-> EmptyFieldSet, confidence |-> 0]>>],
     [kind |-> "data",   aiResult |-> <<[data |-> AiFieldsClean, confidence |-> 92]>>],
     [kind |-> "data",   aiResult |-> <<[data |-> AiFieldsSuspect, confidence |-> 65]>>]}

\* the edits a user makes in the form (InvoiceForm's onDataUpdate)
EditChoices ==
    {FieldSetOf(<<KV("balanceOwing", <<"0">>)>>),
     FieldSetOf(<<KV("vin", <<"A", "B", "C">>)>>),
     FieldSetOf(<<KV("totalCost", <<"5", "0", "0", "0", "0">>), KV("gstAmount", <<"6", "0", "0", "0">>)>>)}

-----------------------------------------------------------------------------
(* OCRService.processInvoice and Index.handleFileUpload                    *)
(*                                                                         *)
(* One record per call of handleFileUpload. Its pc is the await the call   *)
(* is suspended at:                                                        *)
(*   "import"         await import('./documentAnalysisService')            *)
(*   "textLayer"      await extractTextFromPdf(file)        (part_002)     *)
(*   "createWorker"   await createWorker('eng')                            *)
(*   "setParameters"  await this.worker.setParameters(...)                 *)
(*   "ocr"            await convertPdfToImage / arrayBuffer                *)
(*   "recognizing"    await worker.recognize(...)                          *)
(*   "ai"             await supabase.functions.invoke('parse-invoice')     *)
(*   "join"           await documentAnalysisPromise                        *)
(* Its other fields: the file, the mode of the extraction under way        *)
(* ("fast" / "thorough"), the text extracted so far, the state of the      *)
(* analysis promise ("none" when it is null), the answer of the edge       *)
(* function, the calls of worker.recognize made (mode and text returned),  *)
(* what the text-layer extraction gave, and the worker in hand.            *)

MaxUploads == 2
MaxEdits == 1

Impls == {"ocrService", "part_002"}

\* the edge function is down
FewAiOutcomes == {o \in AiOutcomes : o.kind = "error"}

\* the scenarios explored: one upload of any document, with every failure
\* of the libraries, followed or preceded by form edits; and up to MaxUploads
\* overlapping uploads of two documents with the page unmounting at any time;
\* and up to MaxUploads uploads, one after the other, of a full and a sparse
\* scan, with every failure of the libraries
Envs ==
    {[files |-> FileNames, ai |-> AiOutcomes, faults |-> TRUE, uploads |-> 1,
      edits |-> MaxEdits, overlap |-> FALSE, unmount |-> FALSE],
     [files |-> {"blurry.png", "scanned.pdf"}, ai |-> FewAiOutcomes, faults |-> FALSE,
      uploads |-> MaxUploads, edits |-> 0, overlap |-> TRUE, unmount |-> TRUE],
     [files |-> {"scan.png", "faint.jpg"}, ai |-> FewAiOutcomes, faults |-> TRUE,
      uploads |-> MaxUploads, edits |-> 0, overlap |-> FALSE, unmount |-> FALSE]}

\* the keys of the form's initial state, all ''
FormKeys ==
    {"totalCost", "deposit", "tradeInValue", "balanceOwing", "purchasePrice",
     "gstAmount", "vin", "vendorAbn", "purchaseDate", "vehicleYear", "odometer"}

InitialInvoiceData == [fields |-> [k \in FormKeys |-> <<>>], fraud |-> <<>>]

IdleRun ==
    [pc |-> "idle", file |-> "", pass |-> "", text |-> <<>>, promise |-> "none",
     ai |-> <<>>, aiCalls |-> 0, passes |-> <<>>, layer |-> "untried", w |-> <<>>]

DoneRun == [IdleRun EXCEPT !.pc = "done"]

NoLast ==
    [upload |-> 0, file |-> "", threw |-> FALSE, passes |-> <<>>, layer |-> "untried",
     text |-> <<>>, promise |-> "none", ai |-> <<>>, aiCalls |-> 0, result |-> <<>>,
     fraud |-> <<>>, newest |-> <<>>]

isPdfFile(name) == File(name).isPdf

\* String.prototype.trim
Trim(s) ==
    LET a == TakeWhile(s, 1, Whitespace)
        b == IF a > Len(s) THEN 0
             ELSE CHOOSE j \in a..Len(s) :
                     /\ s[j] \notin Whitespace
                     /\ \A k \in (j + 1)..Len(s) : s[k] \in Whitespace
    IN  SubSeqFrom(s, a, b)

\* extractTextFromPdf (part_002): the text (optional) and whether the loaded
\* document comes back with it
extractTextFromPdf(name) ==
    With(File(name), LAMBDA f :
        IF f.pdfError \in {"load", "page", "text"} THEN [text |-> <<>>, pdfDoc |-> FALSE]
        ELSE With(Trim(f.layer \o <<"\n">>), LAMBDA text :
                 [text |-> IF Len(text) > 20 THEN <<text>> ELSE <<>>, pdfDoc |-> TRUE]))

\* initializeWorker, up to its first await: with a worker in the field it
\* returns it, else it awaits createWorker
enterInitializeWorker(rr) ==
    IF worker # <<>> THEN [rr EXCEPT !.pc = "ocr", !.w = worker]
    ELSE [rr EXCEPT !.pc = "createWorker"]

\* extractTextFromFile(file, usePreprocessing, fastMode), up to its first await
enterExtractTextFromFile(rr, pass) ==
    LET r1 == [rr EXCEPT !.pass = pass]
    IN  IF impl = "part_002" /\ isPdfFile(rr.file)
        THEN [r1 EXCEPT !.pc = "textLayer"]
        ELSE enterInitializeWorker(r1)

\* the test after the fast extraction: retry with full processing?
retryNeeded(text, name) ==
    IF impl = "ocrService" THEN Len(text) < 100
    ELSE Len(text) < 20 /\ ~isPdfFile(name)

\* the progress reported once the text is extracted
ExtractedProgress == IF impl = "ocrService" THEN 50 ELSE 35

\* the variant `while (text.length < 100)`: the retry is repeated
afterExtractTextFromFileAgain(rr, text) ==
    IF retryNeeded(text, rr.file)
    THEN enterExtractTextFromFile([rr EXCEPT !.text = <<text>>], "thorough")
    ELSE [rr EXCEPT !.pc = "ai", !.text = <<text>>]

\* processInvoice once extractTextFromFile has returned `text`
afterExtractTextFromFile(rr, text) ==
    IF rr.pass = "fast" /\ retryNeeded(text, rr.file)
    THEN enterExtractTextFromFile([rr EXCEPT !.text = <<text>>], "thorough")
    ELSE [rr EXCEPT !.pc = "ai", !.text = <<text>>]

\* The texts an extraction can return, and parseAustralianInvoice and
\* compareOcrWithTextLayer over them, evaluated once
CatalogueTexts == {TextInvoice, TextSuspect, TextForty, TextFifteen, TextStamp}

parsedInvoice == [text \in CatalogueTexts |-> parseAustralianInvoice(text)]

comparison ==
    [pair \in CatalogueTexts \X {TextForty, TextStamp} |->
        compareOcrWithTextLayer(pair[1], pair[2])]

\* the variant aiResult.confidence >= 0
aiSucceededFromZero(outcome) ==
    /\ outcome.kind = "data"
    /\ outcome.aiResult # <<>>
    /\ outcome.aiResult[1].confidence >= 0

\* aiResult && aiResult.confidence > 0, with no error
aiSucceeded(outcome) ==
    /\ outcome.kind = "data"
    /\ outcome.aiResult # <<>>
    /\ outcome.aiResult[1].confidence > 0

\* the variant that runs the analysis at the join when the promise is null
joinedAnalysisAnyway(rr) ==
    <<analyzeDocument(File(rr.file))>>

\* the analysis the promise resolved with, after the comparison with the text
\* layer has pushed its indicators; none when the analysis never started
joinedAnalysis(rr) ==
    IF rr.promise = "none" THEN <<>>
    ELSE With(analyzeDocument(File(rr.file)), LAMBDA a :
             <<[a EXCEPT !.suspiciousIndicators =
                    IF a.textLayerText # <<>>
                    THEN @ \o comparison[<<rr.text[1], a.textLayerText>>].indicators
                    ELSE @]>>)

\* what processInvoice returns
processInvoiceResult(rr) ==
    IF aiSucceeded(rr.ai[1])
    THEN [data |-> rr.ai[1].aiResult[1].data,
          confidence |-> rr.ai[1].aiResult[1].confidence,
          documentAnalysis |-> joinedAnalysis(rr)]
    ELSE [data |-> parsedInvoice[rr.text[1]],
          confidence |-> 60,
          documentAnalysis |-> joinedAnalysis(rr)]

\* the history entry of a settled upload; `newest` keeps how the run of the
\* most recently uploaded document (the one in uploadedFile) settled
Settled(r, rr, threw, result, fraud) ==
    [upload |-> r, file |-> rr.file, threw |-> threw, passes |-> rr.passes,
     layer |-> rr.layer, text |-> rr.text, promise |-> rr.promise, ai |-> rr.ai,
     aiCalls |-> rr.aiCalls, result |-> result, fraud |-> fraud,
     newest |-> IF r = uploads
                THEN <<[upload |-> r, file |-> rr.file, threw |-> threw,
                        result |-> result, fraud |-> fraud]>>
                ELSE last.newest]

\* a setState of the page: dropped once the page is unmounted
SetState(current, value) == IF mounted THEN value ELSE current

\* the variant with no finally block: the catch alone
RejectsWithoutFinally(r, rr) ==
    /\ run' = [run EXCEPT ![r] = DoneRun]
    /\ last' = Settled(r, rr, TRUE, <<>>, <<>>)
    /\ UNCHANGED <<uploadedFile, isProcessing, processingProgress, invoiceData,
                   pageConfidence>>

\* processInvoice rejects: the catch and finally of handleFileUpload
Rejects(r, rr) ==
    /\ run' = [run EXCEPT ![r] = DoneRun]
    /\ isProcessing' = SetState(isProcessing, FALSE)
    /\ processingProgress' = SetState(processingProgress, 0)
    /\ last' = Settled(r, rr, TRUE, <<>>, <<>>)
    /\ UNCHANGED <<uploadedFile, invoiceData, pageConfidence>>

\* processInvoice goes on to its next await
Continues(r, rr) ==
    /\ run' = [run EXCEPT ![r] = rr]
    /\ processingProgress' =
          IF rr.pc = "ai" /\ run[r].pc # "ai"
          THEN SetState(processingProgress, ExtractedProgress)
          ELSE processingProgress
    /\ UNCHANGED <<uploadedFile, isProcessing, invoiceData, pageConfidence, last>>

\* handleFileUpload(file), up to the first await of processInvoice
handleFileUpload(r, f) ==
    /\ mounted /\ uploads < env.uploads /\ r = uploads + 1
    /\ f \in env.files
    /\ env.overlap \/ \A q \in 1..MaxUploads : run[q].pc \in {"idle", "done"}
    /\ uploads' = r
    /\ uploadedFile' = <<f>>
    /\ isProcessing' = TRUE
    /\ processingProgress' = 10
    /\ run' = [run EXCEPT ![r] = [IdleRun EXCEPT !.pc = "import", !.file = f]]
    /\ UNCHANGED <<invoiceData, pageConfidence, mounted, worker, workers,
                   terminating, edits, last, impl, env, engVars, docVars, procVars>>

\* the dynamic import settles: analyzeDocument is started (ok) or the import
\* throws and the promise stays null; then the fast extraction begins
StartAnalysis(r) ==
    /\ run[r].pc = "import"
    /\ \E ok \in {TRUE, ~env.faults} :
          Continues(r, enterExtractTextFromFile(
              [run[r] EXCEPT !.promise = IF ok THEN "pending" ELSE "none"], "fast"))
    /\ UNCHANGED <<mounted, worker, workers, terminating, uploads, edits, impl, env, engVars, docVars, procVars>>

\* analyzeDocument returns (it catches its own failures)
AnalysisResolves(r) ==
    /\ run[r].pc \notin {"idle", "done"}
    /\ run[r].promise = "pending"
    /\ Continues(r, [run[r] EXCEPT !.promise = "resolved"])
    /\ UNCHANGED <<mounted, worker, workers, terminating, uploads, edits, impl, env, engVars, docVars, procVars>>

\* extractTextFromPdf settles (part_002)
TextLayerDone(r) ==
    /\ run[r].pc = "textLayer"
    /\ \E e \in {extractTextFromPdf(run[r].file)} :
           IF e.text # <<>>
           THEN Continues(r, afterExtractTextFromFile(
                                [run[r] EXCEPT !.layer = "returned"], e.text[1]))
           ELSE Continues(r, enterInitializeWorker(
                                [run[r] EXCEPT !.layer = IF e.pdfDoc THEN "short"
                                                         ELSE "failed"]))
    /\ UNCHANGED <<mounted, worker, workers, terminating, uploads, edits, impl, env, engVars, docVars, procVars>>

\* createWorker('eng') settles: the new worker is stored in the field
WorkerCreated(r) ==
    /\ run[r].pc = "createWorker"
    /\ \/ /\ workers' = Append(workers, "unconfigured")
          /\ worker' = <<Len(workers) + 1>>
          /\ Continues(r, [run[r] EXCEPT !.pc = "setParameters",
                                         !.w = <<Len(workers) + 1>>])
       \/ /\ env.faults
          /\ Rejects(r, run[r])
          /\ UNCHANGED <<worker, workers>>
    /\ UNCHANGED <<mounted, terminating, uploads, edits, impl, env, engVars, docVars, procVars>>

\* setParameters settles; initializeWorker returns this.worker as it is now
ParamsSet(r) ==
    /\ run[r].pc = "setParameters"
    /\ \/ /\ workers' = [workers EXCEPT ![run[r].w[1]] =
                            IF @ = "terminated" THEN @ ELSE "ready"]
          /\ Continues(r, [run[r] EXCEPT !.pc = "ocr", !.w = worker])
       \/ /\ env.faults
          /\ Rejects(r, run[r])
          /\ UNCHANGED workers
    /\ UNCHANGED <<mounted, worker, terminating, uploads, edits, impl, env, engVars, docVars, procVars>>

\* convertPdfToImage throws: in ocrService.ts it loads the file and gets
\* page 1; in part_002 it gets page 1 of the pdfDoc extractTextFromPdf
\* returned, which is null after a failed text layer step
convertPdfToImageThrows(rr) ==
    /\ isPdfFile(rr.file)
    /\ IF impl = "part_002" THEN rr.layer = "failed"
       ELSE File(rr.file).pdfError \in {"load", "page"}

\* convertPdfToImage / arrayBuffer settle and worker.recognize is called
OcrStart(r) ==
    /\ run[r].pc = "ocr"
    /\ IF \/ convertPdfToImageThrows(run[r])
          \/ run[r].w = <<>>
       THEN Rejects(r, run[r])
       ELSE Continues(r, [run[r] EXCEPT !.pc = "recognizing",
                                        !.passes = Append(@, [mode |-> run[r].pass,
                                                              text |-> <<>>])])
    /\ UNCHANGED <<mounted, worker, workers, terminating, uploads, edits, impl, env, engVars, docVars, procVars>>

\* worker.recognize settles with the text of the page, or rejects (an
\* unreadable image; a worker terminated meanwhile never answers or rejects)
OcrDone(r) ==
    /\ run[r].pc = "recognizing"
    /\ \E scan \in {File(run[r].file).scan[run[r].pass]} :
           IF workers[run[r].w[1]] = "terminated" \/ scan = <<>>
           THEN Rejects(r, run[r])
           ELSE Continues(r, afterExtractTextFromFile(
                    [run[r] EXCEPT !.passes[Len(run[r].passes)].text = scan], scan[1]))
    /\ UNCHANGED <<mounted, worker, workers, terminating, uploads, edits, impl, env, engVars, docVars, procVars>>

\* supabase.functions.invoke('parse-invoice') was called and settles
AiDone(r, outcome) ==
    /\ run[r].pc = "ai"
    /\ outcome \in env.ai
    /\ Continues(r, [run[r] EXCEPT !.pc = "join", !.ai = <<outcome>>,
                                   !.aiCalls = @ + 1])
    /\ UNCHANGED <<mounted, worker, workers, terminating, uploads, edits, impl, env, engVars, docVars, procVars>>

\* the variant without `await documentAnalysisPromise`
analysisNotAwaited(rr) == TRUE

\* `await documentAnalysisPromise` lets the call go on: there is no promise
\* (the branch is skipped) or the promise has settled
analysisAwaited(rr) == rr.promise # "pending"

\* processInvoice returns and handleFileUpload scores and shows the result
Join(r) ==
    /\ run[r].pc = "join"
    /\ analysisAwaited(run[r])
    /\ \E result \in {processInvoiceResult(run[r])} :
       \E fraudAnalysis \in {analyzeInvoice(result.data, <<result.confidence>>,
                                            result.documentAnalysis)} :
           /\ invoiceData' =
                 SetState(invoiceData,
                          [fields |-> Merge(invoiceData.fields, result.data),
                           fraud  |-> <<fraudAnalysis>>])
           /\ pageConfidence' = SetState(pageConfidence, result.confidence)
           /\ last' = Settled(r, run[r], FALSE, <<result>>, <<fraudAnalysis>>)
    /\ isProcessing' = SetState(isProcessing, FALSE)
    /\ processingProgress' = SetState(processingProgress, 0)
    /\ run' = [run EXCEPT ![r] = DoneRun]
    /\ UNCHANGED <<uploadedFile, mounted, worker, workers, terminating, uploads, edits,
                   impl, env, engVars, docVars, procVars>>

\* handleDataUpdate(updatedData): the form was edited
handleDataUpdate(updatedData) ==
    /\ mounted /\ edits < env.edits
    /\ edits' = edits + 1
    /\ \E newData \in {Merge(invoiceData.fields, updatedData)} :
       \E fraudAnalysis \in {analyzeInvoice(newData, <<pageConfidence>>, <<>>)} :
           invoiceData' = [fields |-> newData, fraud |-> <<fraudAnalysis>>]
    /\ UNCHANGED <<uploadedFile, isProcessing, processingProgress, pageConfidence, mounted,
                   worker, workers, terminating, run, uploads, last, impl, env, engVars, docVars, procVars>>

\* the page unmounts: the effect cleanup calls OCRService.terminate(), which
\* calls worker.terminate() when there is a worker
Unmount ==
    /\ mounted /\ env.unmount
    /\ mounted' = FALSE
    /\ IF worker # <<>>
       THEN /\ workers' = [workers EXCEPT ![worker[1]] = "terminated"]
            /\ terminating' = TRUE
       ELSE UNCHANGED <<workers, terminating>>
    /\ UNCHANGED <<uploadedFile, isProcessing, processingProgress, invoiceData,
                   pageConfidence, worker, run, uploads, edits, last, impl, env, engVars, docVars, procVars>>

\* worker.terminate() settles and terminate() clears the field
TerminateDone ==
    /\ terminating
    /\ terminating' = FALSE
    /\ worker' = <<>>
    /\ UNCHANGED <<pageVars, workers, run, uploads, edits, last, impl, env, engVars, docVars, procVars>>

PipelineInit ==
    /\ mounted = TRUE
    /\ uploadedFile = <<>>
    /\ isProcessing = FALSE
    /\ processingProgress = 0
    /\ invoiceData = InitialInvoiceData
    /\ pageConfidence = 0
    /\ worker = <<>>
    /\ workers = <<>>
    /\ terminating = FALSE
    /\ run = [r \in 1..MaxUploads |-> IdleRun]
    /\ uploads = 0
    /\ edits = 0
    /\ last = NoLast

EngineIdle ==
    /\ engData = EmptyFieldSet
    /\ engConf = <<>>
    /\ engDoc = <<>>
    /\ engResult = <<>>
    /\ engCalls = 0

AnalyzerIdle ==
    /\ docFile = <<>>
    /\ docResult = <<>>
    /\ simTexts = <<>>
    /\ simResult = <<>>
    /\ cmpResult = <<>>

IdleProcRun ==
    [pc |-> "idle", pageCount |-> 0, hasText |-> FALSE, estimatedTime |-> 0,
     mode |-> "", status |-> "", confidence |-> <<>>, etaSeconds |-> <<>>]

ProcessorIdle ==
    /\ procFile = <<>>
    /\ procRun = IdleProcRun

Init ==
    /\ impl \in Impls
    /\ env \in Envs
    /\ PipelineInit
    /\ EngineIdle
    /\ AnalyzerIdle
    /\ ProcessorIdle

Next ==
    \/ \E r \in 1..MaxUploads : \E f \in FileNames : handleFileUpload(r, f)
    \/ \E r \in 1..MaxUploads : StartAnalysis(r)
    \/ \E r \in 1..MaxUploads : AnalysisResolves(r)
    \/ \E r \in 1..MaxUploads : TextLayerDone(r)
    \/ \E r \in 1..MaxUploads : WorkerCreated(r)
    \/ \E r \in 1..MaxUploads : ParamsSet(r)
    \/ \E r \in 1..MaxUploads : OcrStart(r)
    \/ \E r \in 1..MaxUploads : OcrDone(r)
    \/ \E r \in 1..MaxUploads : \E outcome \in AiOutcomes : AiDone(r, outcome)
    \/ \E r \in 1..MaxUploads : Join(r)
    \/ \E updatedData \in EditChoices : handleDataUpdate(updatedData)
    \/ Unmount
    \/ TerminateDone

Spec == Init /\ [][Next]_vars

-----------------------------------------------------------------------------
(* FraudDetectionService.analyzeInvoice on its own: the arguments are drawn *)
(* from families built around the thresholds of its rules, and the call is  *)
(* made up to MaxCalls times on the same argument objects.                  *)

MaxCalls == 2

\* optional values of the amount fields
TotalCostValues == {<<>>, <<<<"5", "0", "0", "0", "0">>>>, <<<<"0">>>>}
DepositValues == {<<>>, <<<<"5", "0", "0", "0">>>>, <<<<"n", "/", "a">>>>}
TradeInValues == {<<>>, <<<<"1", "0", "0", "0", "0">>>>}
BalanceOwingValues == {<<>>, <<<<"3", "5", "0", "0", "0">>>>, <<<<"3", "5", "0", "0", "1", ".", "5", "0">>>>, <<<<"0">>>>, <<<<"4", "5", "0", "0", "0">>>>}
GstValues == {<<>>, <<<<"4", "5", "4", "5", ".", "4", "5">>>>, <<<<"6", "0", "0", "0">>>>, <<<<"6", "0", "0", "0", ".", "0", "1">>>>, <<<<"3", "9", "9", "9">>>>}

\* the other fields the rules read: all absent, or all set and all wrong
NoOtherFields == <<>>

WrongOtherFields ==
    <<KV("vin", <<"A", "B", "C">>), KV("abn", <<"1", "2", "3">>), KV("invoiceDate", <<"2", "0", "3", "0", "-", "0", "1", "-", "0", "5">>),
      KV("vehicleYear", <<"1", "9", "8", "0">>), KV("odometer", <<"5", "0">>), KV("phone", <<"n", "/", "a">>),
      KV("email", <<"n", "o", "b", "o", "d", "y">>), KV("postcode", <<"2", "0">>)>>

\* VINs by themselves: of 17 characters, one short, one long, and a blank
Vin17 == <<"1", "H", "G", "C", "M", "8", "2", "6", "3", "3", "A", "0", "0", "4", "3", "5", "2">>
VinValues == {Vin17, Tail(Vin17), Vin17 \o <<"X">>, <<" ">>}

OptionalField(k, value) == IF value = <<>> THEN <<>> ELSE <<KV(k, value[1])>>

ScoreFieldSets ==
    {FieldSetOf(OptionalField("totalCost", t) \o OptionalField("deposit", d)
                \o OptionalField("tradeInValue", tr) \o OptionalField("balanceOwing", b)
                \o OptionalField("gst", g) \o others) :
        t \in TotalCostValues, d \in DepositValues, tr \in TradeInValues,
        b \in BalanceOwingValues, g \in GstValues,
        others \in {NoOtherFields, WrongOtherFields} \cup {<<KV("vin", v)>> : v \in VinValues}}

ScoreConfidences == {<<>>, <<65>>, <<40>>}

\* no analysis, an analysis without findings, one with two findings, and
\* one with the same finding twice (creator and producer name the same tool)
ScoreAnalyses ==
    {<<>>,
     <<[hasTextLayer |-> FALSE, textLayerText |-> <<>>, suspiciousIndicators |-> <<>>]>>,
     <<[hasTextLayer |-> TRUE, textLayerText |-> TextStamp,
        suspiciousIndicators |-> comparisonIndicators(23, 6, 3)]>>,
     <<[hasTextLayer |-> TRUE, textLayerText |-> TextStamp,
        suspiciousIndicators |-> softwareIndicators(<<"iLovePDF", "iLovePDF">>)]>>}

InitScore ==
    /\ engData \in ScoreFieldSets
    /\ engConf \in ScoreConfidences
    /\ engDoc \in ScoreAnalyses
    /\ engResult = <<>>
    /\ engCalls = 0
    /\ impl = "ocrService"
    /\ env \in {e \in Envs : e.uploads = 1}
    /\ PipelineInit
    /\ AnalyzerIdle
    /\ ProcessorIdle

\* FraudDetectionService.analyzeInvoice(engData, engConf, engDoc)
Analyze ==
    /\ engCalls < MaxCalls
    /\ engCalls' = engCalls + 1
    /\ engResult' = <<analyzeInvoice(engData, engConf, engDoc)>>
    /\ \E after \in {analyzeInvoiceArgsAfter(engData, engConf, engDoc)} :
          /\ engData' = after.data
          /\ engDoc' = after.documentAnalysis
    /\ UNCHANGED <<engConf, docVars, procVars, pageVars, pipeVars>>

NextScore == Analyze

SpecScore == InitScore /\ [][NextScore]_vars

-----------------------------------------------------------------------------
(* Properties of the scoring engine, over SpecScore *)

\* some indicator of the list has this type, field and severity
HasIndicator(indicators, t, f, sev) ==
    \E i \in 1..Len(indicators) :
        /\ indicators[i].type = t
        /\ indicators[i].field = f
        /\ indicators[i].severity = sev

\* some indicator of the list is about this field
HasFieldIndicator(indicators, f) ==
    \E i \in 1..Len(indicators) : indicators[i].field = f

\* the score before clamping of the analysis in engData, engConf, engDoc
UnclampedScore ==
    baseScore(validateMath(engData), validateBusinessLogic(engData),
              confidencePenalty(engConf), validateFormats(engData),
              integrityIssues(engDoc))

\* C1: whatever its inputs, analyzeInvoice returns a fraudScore within
\* [0, 100] (0..1000 tenths), and the riskLevel is 'low' exactly when the
\* score is at least 80, 'medium' exactly when it is at least 50 and below
\* 80, and 'high' exactly when it is below 50.
C1_ScoreInRangeAndRiskLevel ==
    engResult # <<>> =>
        /\ engResult[1].fraudScore \in 0..1000
        /\ engResult[1].riskLevel \in {"low", "medium", "high"}
        /\ engResult[1].riskLevel = "low" <=> engResult[1].fraudScore >= 800
        /\ engResult[1].riskLevel = "medium" <=>
              (engResult[1].fraudScore >= 500 /\ engResult[1].fraudScore < 800)
        /\ engResult[1].riskLevel = "high" <=> engResult[1].fraudScore < 500

\* C1 witness: an analysis whose subtractions go below zero and whose
\* returned score is the floor 0, with riskLevel 'high'
C1_FloorReached ==
    /\ engResult # <<>>
    /\ UnclampedScore < 0
    /\ engResult[1].fraudScore = 0
    /\ engResult[1].riskLevel = "high"

\* a field that reads as an amount, zero included
AmountGiven(data, k) == ~parseAmount(Get(data, k)).nan

\* the amount of a field in cents, 0 when the field holds no amount
AmountOrZero(data, k) ==
    IF AmountGiven(data, k) THEN parseAmount(Get(data, k)).v ELSE 0

\* C2: analyzeInvoice reports the critical indicator on 'balanceOwing' of
\* severity 10 exactly when totalCost and balanceOwing are both given and
\* balanceOwing differs from totalCost - deposit - tradeInValue by more
\* than 1.00 (absent deposit and trade-in count as 0); a balanceOwing of 0
\* is a given value and is checked like any other.
C2_BalanceIndicatorExactlyOnMismatch ==
    engResult # <<>> =>
        (HasIndicator(engResult[1].fraudIndicators, "critical", "balanceOwing", 10)
         <=> /\ AmountGiven(engData, "totalCost")
             /\ AmountGiven(engData, "balanceOwing")
             /\ Abs(AmountOrZero(engData, "balanceOwing")
                    - (AmountOrZero(engData, "totalCost")
                       - AmountOrZero(engData, "deposit")
                       - AmountOrZero(engData, "tradeInValue"))) > 100)

\* C2 case: an invoice of total 50000 and deposit 5000 that states a
\* balance owing of 0 has been analysed
C2_ZeroBalanceAnalysed ==
    /\ engResult # <<>>
    /\ AmountGiven(engData, "balanceOwing")
    /\ AmountOrZero(engData, "balanceOwing") = 0
    /\ AmountOrZero(engData, "totalCost") = 5000000
    /\ AmountOrZero(engData, "deposit") = 500000
    /\ AmountOrZero(engData, "tradeInValue") = 0

\* C3: for a total of 50000.00, a GST of 4545.45 brings no GST warning,
\* and a GST of 6000.00 brings the warning on field 'gst' of severity 6.
C3_GstWarningOnTotal50000 ==
    (engResult # <<>> /\ AmountOrZero(engData, "totalCost") = 5000000) =>
        /\ AmountOrZero(engData, "gst") = 454545 =>
              ~HasFieldIndicator(engResult[1].fraudIndicators, "gst")
        /\ AmountOrZero(engData, "gst") = 600000 =>
              HasIndicator(engResult[1].fraudIndicators, "warning", "gst", 6)

\* C3 case: an invoice of total 50000.00 with GST 6000.00 has been analysed
C3_Gst6000Analysed ==
    /\ engResult # <<>>
    /\ AmountOrZero(engData, "totalCost") = 5000000
    /\ AmountOrZero(engData, "gst") = 600000

-----------------------------------------------------------------------------
(* Properties of the pipeline and the page, over Spec *)

\* the last upload ran to its end and the page scored its result
Scored == last.upload > 0 /\ ~last.threw /\ last.result # <<>> /\ last.fraud # <<>>

\* every indicator of the first list occurs in the second
AllAmong(inds, others) ==
    \A i \in 1..Len(inds) : \E j \in 1..Len(others) : others[j] = inds[i]

\* the indicators of a list that are about one of the fields
AboutFields(inds, fields) == SelectSeq(inds, LAMBDA ind : ind.field \in fields)

\* the data of a pipeline result under the names the engine's rules use
UnderEngineNames(data) ==
    Merge(data, [gst         |-> Get(data, "gstAmount"),
                 abn         |-> Get(data, "vendorAbn"),
                 invoiceDate |-> Get(data, "purchaseDate")])

\* what the GST, ABN and invoice-date rules find in the values of a
\* pipeline result
PipelineFieldFindings(data) ==
    AboutFields(validateMath(UnderEngineNames(data))
                    \o validateBusinessLogic(UnderEngineNames(data)),
                {"gst", "abn", "invoiceDate"})

\* C4: the GST, ABN and invoice-date rules of the engine apply to the
\* values the pipeline extracted under gstAmount, vendorAbn and
\* purchaseDate: whatever those rules find in the extracted values is
\* among the indicators of the assessment of the upload.
C4_EngineChecksExtractedFields ==
    Scored =>
        AllAmong(PipelineFieldFindings(last.result[1].data),
                 last.fraud[1].fraudIndicators)

\* C4 case: an upload was scored whose extracted GST, ABN or purchase date
\* breaks a rule of the engine
C4_ExtractedFieldBreaksRule ==
    /\ Scored
    /\ PipelineFieldFindings(last.result[1].data) # <<>>

\* C5: when the form is edited after an upload that was processed with an
\* integrity analysis, the recomputed assessment still holds every
\* integrity indicator of that analysis, and its score is the one computed
\* with the integrity penalty.
C5_EditKeepsIntegrityFindings ==
    [][(edits' = edits + 1 /\ Scored /\ last.result[1].documentAnalysis # <<>>) =>
          /\ AllAmong(integrityIssues(last.result[1].documentAnalysis),
                      invoiceData'.fraud[1].fraudIndicators)
          /\ invoiceData'.fraud[1].fraudScore =
                clampScore(baseScore(validateMath(invoiceData'.fields),
                                     validateBusinessLogic(invoiceData'.fields),
                                     confidencePenalty(<<pageConfidence>>),
                                     validateFormats(invoiceData'.fields),
                                     integrityIssues(last.result[1].documentAnalysis)))]_vars

\* C5 case: the form was edited after an upload whose integrity analysis
\* had findings
C5_EditedAfterIntegrityFindings ==
    /\ edits > 0
    /\ Scored
    /\ last.result[1].documentAnalysis # <<>>
    /\ integrityIssues(last.result[1].documentAnalysis) # <<>>

\* the first call of worker.recognize of the last upload was the fast one
\* and returned a text
FastPassReturned ==
    /\ last.upload > 0
    /\ last.passes # <<>>
    /\ last.passes[1].mode = "fast"
    /\ last.passes[1].text # <<>>

\* C7: when the fast pass returns fewer than 100 characters, the pipeline
\* runs a second pass in thorough mode and the text of that pass is the
\* one used from there on; when the fast pass returns 100 characters or
\* more there is no second pass.
C7_ThoroughPassBelow100 ==
    FastPassReturned =>
        IF Len(last.passes[1].text[1]) < 100
        THEN /\ Len(last.passes) = 2
             /\ last.passes[2].mode = "thorough"
             /\ ~last.threw => last.text = last.passes[2].text
        ELSE Len(last.passes) = 1

\* C7 case: the fast pass of an upload returned fewer than 100 characters
C7_FastPassShort ==
    /\ FastPassReturned
    /\ Len(last.passes[1].text[1]) < 100

\* the last upload was a PDF that loads and was processed to the end
ReadablePdfProcessed ==
    /\ Scored
    /\ isPdfFile(last.file)
    /\ File(last.file).pdfError \notin {"load", "page"}

\* the trimmed text of the text layer of the last file
LayerText == Trim(File(last.file).layer)

\* C8: for a PDF, the OCR engine is invoked exactly when the text layer
\* gives 20 characters or fewer after trimming; a longer text layer is
\* itself the extracted text.
C8_PdfOcrOnlyForShortTextLayer ==
    ReadablePdfProcessed =>
        /\ last.passes # <<>> <=> Len(LayerText) <= 20
        /\ Len(LayerText) > 20 => last.text = <<LayerText>>

\* C8 case: a PDF whose text layer is longer than 20 characters was
\* processed
C8_PdfWithTextLayerProcessed ==
    /\ ReadablePdfProcessed
    /\ Len(LayerText) > 20

\* the AI parsing step failed: the invocation threw or reported an error,
\* or its response is missing, or it carries a confidence of zero or less
AiFailed(outcome) ==
    \/ outcome.kind # "data"
    \/ outcome.aiResult = <<>>
    \/ outcome.aiResult[1].confidence <= 0

\* C9: when the AI parsing step fails, the result of the pipeline is what
\* FieldParser.parseAustralianInvoice reads from the same extracted text,
\* with a confidence of exactly 60; otherwise the fields and the
\* confidence are those of the AI answer.
C9_FallbackParserOnAiFailure ==
    Scored =>
        IF AiFailed(last.ai[1])
        THEN /\ last.result[1].data = parsedInvoice[last.text[1]]
             /\ last.result[1].confidence = 60
        ELSE /\ last.result[1].data = last.ai[1].aiResult[1].data
             /\ last.result[1].confidence = last.ai[1].aiResult[1].confidence

\* C9 witness: the AI answered with a confidence of 0 and the upload was
\* scored with the fields the fallback parser read from the text
C9_FallbackUsed ==
    /\ Scored
    /\ last.ai[1].kind = "data"
    /\ last.ai[1].aiResult # <<>>
    /\ last.ai[1].aiResult[1].confidence = 0
    /\ last.result[1].confidence = 60
    /\ Get(last.result[1].data, "totalCost") # <<>>

-----------------------------------------------------------------------------
(* Properties of the join, of the analyzer and of failures *)

\* the first list is the beginning of the second
IsPrefix(inds, others) ==
    /\ Len(inds) <= Len(others)
    /\ SubSeq(others, 1, Len(inds)) = inds

\* C11: processInvoice does not return a result, on the AI path or on the
\* fallback path, while the integrity analysis it started is unsettled;
\* and the documentAnalysis it returns is the result of that analysis (the
\* object analyzeDocument resolved with, the text-layer comparison's
\* indicators pushed after the analysis' own).
C11_ResultAfterAnalysisSettled ==
    [][\A r \in 1..MaxUploads :
          (run[r].pc = "join" /\ run'[r].pc # "join") =>
              /\ run[r].promise # "pending"
              /\ last'.upload = r /\ last'.result # <<>>
              /\ run[r].promise = "none" => last'.result[1].documentAnalysis = <<>>
              /\ run[r].promise = "resolved" =>
                    /\ last'.result[1].documentAnalysis # <<>>
                    /\ last'.result[1].documentAnalysis[1].hasTextLayer
                          = analyzeDocument(File(run[r].file)).hasTextLayer
                    /\ last'.result[1].documentAnalysis[1].textLayerText
                          = analyzeDocument(File(run[r].file)).textLayerText
                    /\ IsPrefix(analyzeDocument(File(run[r].file)).suspiciousIndicators,
                                last'.result[1].documentAnalysis[1].suspiciousIndicators)]_vars

\* C11 witness: a call of processInvoice that has its text and its AI
\* answer is held at the join by an analysis that is still running, while
\* an earlier upload returned with the findings of its own analysis
C11_HeldAtJoin ==
    /\ \E r \in 1..MaxUploads :
          /\ run[r].pc = "join"
          /\ run[r].ai # <<>>
          /\ run[r].promise = "pending"
    /\ Scored
    /\ last.promise = "resolved"
    /\ last.result[1].documentAnalysis # <<>>
    /\ last.result[1].documentAnalysis[1].suspiciousIndicators # <<>>

-----------------------------------------------------------------------------
(* Calls of the analyzer on their own: SpecAnalyzer *)

\* the metadata pdf.js may report
MetaChoices ==
    {NoMeta,
     [creationDate |-> <<NowHours - 1000>>, modificationDate |-> <<NowHours - 1000>>,
      creator |-> <<"Scanner">>, producer |-> <<>>, title |-> <<>>],
     [creationDate |-> <<NowHours - 1000>>, modificationDate |-> <<NowHours - 900>>,
      creator |-> <<"iLovePDF">>, producer |-> <<"PDF Editor Pro">>,
      title |-> <<"Invoice 42">>],
     [creationDate |-> <<NowHours - 10>>, modificationDate |-> <<NowHours + 5>>,
      creator |-> <<>>, producer |-> <<"DocuSign Envelope">>, title |-> <<"Untitled">>],
     [creationDate |-> <<>>, modificationDate |-> <<NowHours + 5>>,
      creator |-> <<"Scanner">>, producer |-> <<>>, title |-> <<>>]}

\* the fonts of page 1
FontChoices ==
    {<<[fontName |-> "Arial", positions |-> <<700, 680, 660>>]>>,
     <<[fontName |-> "Courier",
        positions |-> <<700, 10, 690, 20, 680, 30, 670, 40, 660, 50, 650>>]>>,
     <<[fontName |-> "Arial",
        positions |-> <<700, 10, 690, 20, 680, 30, 670, 40, 660, 50, 650>>],
       [fontName |-> "Helvetica-Bold",
        positions |-> <<600, 15, 590, 25, 580, 35, 570, 45, 560, 55, 550>>]>>}

\* the files given to analyzeDocument: PDFs on which pdf.js works or throws
\* at one of its calls, and images
AnalyzerFiles ==
    {PdfFile(pdfError, layer, meta, fonts, annotations, <<>>, <<>>) :
        pdfError \in {"none", "load", "page", "annotations"},
        layer \in {<<>>, TextForty},
        meta \in MetaChoices,
        fonts \in FontChoices,
        annotations \in {0, 1}}
    \cup {ImageFile(recent, <<>>, <<>>) : recent \in BOOLEAN}

\* the texts given to calculateTextSimilarity
SimilarityTexts ==
    {<<>>, <<"a">>, <<"b">>, <<"a", "b">>, <<"b", "a">>, <<"a", "b", "c">>,
     <<"k", "i", "t", "t", "e", "n">>, <<"s", "i", "t", "t", "i", "n", "g">>,
     <<"1", "0", "0", "0", " ", "g", "s", "t">>, <<"1", "0", "0", " ", "g", "s", "t", " ">>,
     TextFifteen, TextStamp, TextForty}

InitAnalyzer ==
    /\ \/ /\ docFile \in {<<f>> : f \in AnalyzerFiles}
          /\ simTexts = <<>>
       \/ /\ docFile = <<>>
          /\ simTexts \in {<<pair>> : pair \in SimilarityTexts \X SimilarityTexts}
    /\ docResult = <<>>
    /\ simResult = <<>>
    /\ cmpResult = <<>>
    /\ impl = "ocrService"
    /\ env \in {e \in Envs : e.uploads = 1}
    /\ PipelineInit
    /\ EngineIdle
    /\ ProcessorIdle

\* DocumentAnalysisService.analyzeDocument(docFile)
AnalyzeDocument ==
    /\ docFile # <<>> /\ docResult = <<>>
    /\ docResult' = <<analyzeDocument(docFile[1])>>
    /\ UNCHANGED <<docFile, simTexts, simResult, cmpResult, engVars, procVars, pageVars, pipeVars>>

\* DocumentAnalysisService.calculateTextSimilarity(text1, text2)
CompareTexts ==
    /\ simTexts # <<>> /\ simResult = <<>>
    /\ simResult' = <<calculateTextSimilarity(simTexts[1][1], simTexts[1][2])>>
    /\ UNCHANGED <<docFile, docResult, simTexts, cmpResult, engVars, procVars, pageVars, pipeVars>>

\* DocumentAnalysisService.compareOcrWithTextLayer(ocrText, textLayerText)
CompareWithTextLayer ==
    /\ simTexts # <<>> /\ cmpResult = <<>>
    /\ cmpResult' = <<compareOcrWithTextLayer(simTexts[1][1], simTexts[1][2])>>
    /\ UNCHANGED <<docFile, docResult, simTexts, simResult, engVars, procVars, pageVars, pipeVars>>

NextAnalyzer == AnalyzeDocument \/ CompareTexts \/ CompareWithTextLayer

SpecAnalyzer == InitAnalyzer /\ [][NextAnalyzer]_vars

\* pdf.js threw in the analysis of the file
AnalysisThrew(file) == file.isPdf /\ file.pdfError # "none"

\* C12: when the analysis of a document throws at any point, the result
\* analyzeDocument returns has exactly one indicator, the generic one on
\* field 'general' of severity 4; nothing found before the failure is left
\* in the list.
C12_FailedAnalysisGivesOneIndicator ==
    (docResult # <<>> /\ AnalysisThrew(docFile[1])) =>
        /\ Len(docResult[1].suspiciousIndicators) = 1
        /\ docResult[1].suspiciousIndicators[1].field = "general"
        /\ docResult[1].suspiciousIndicators[1].severity = 4

\* C12 case: a PDF with findings in its metadata, on which pdf.js throws
\* after the metadata was read, has been analysed
C12_ThrewAfterMetadataFindings ==
    /\ docResult # <<>>
    /\ docFile[1].isPdf
    /\ docFile[1].pdfError \in {"page", "annotations"}
    /\ analyzeMetadataForTampering(docFile[1].meta) # <<>>

\* the last upload settled without its text: extractTextFromFile threw
\* in the fast pass or in the thorough one, so the AI step was never reached
ExtractionFailed == last.upload > 0 /\ last.ai = <<>>

\* C13: when the text extraction fails, processInvoice does not propagate
\* the failure: it returns an empty FieldSet with confidence 0.
C13_ExtractionFailureGivesEmptyResult ==
    ExtractionFailed =>
        /\ ~last.threw
        /\ last.result # <<>>
        /\ last.result[1].data = EmptyFieldSet
        /\ last.result[1].confidence = 0

\* C13 case: an upload on which worker.recognize rejected has settled
C13_RecognizeRejected ==
    /\ ExtractionFailed
    /\ last.passes # <<>>
    /\ last.passes[Len(last.passes)].text = <<>>

\* the workers created and not terminated
LiveWorkers == {i \in 1..Len(workers) : workers[i] # "terminated"}

\* C14: whatever the interleaving of initializeWorker and terminate calls,
\* at most one worker that was created and not terminated exists.
C14_AtMostOneLiveWorker == Cardinality(LiveWorkers) <= 1

\* C14 case: two calls of initializeWorker overlap, both awaiting
\* createWorker
C14_OverlappingInitializeWorker ==
    \E r, q \in 1..MaxUploads :
        /\ r # q
        /\ run[r].pc = "createWorker"
        /\ run[q].pc = "createWorker"

\* the calls of worker.recognize in flight on worker i
RecognizingOn(i) ==
    {r \in 1..MaxUploads : run[r].pc = "recognizing" /\ run[r].w = <<i>>}

\* C15: at any time at most one recognition call is in flight against a
\* given worker, for every interleaving of the uploads the page handles.
C15_OneRecognitionPerWorker ==
    \A i \in 1..Len(workers) : Cardinality(RecognizingOn(i)) <= 1

\* C15 case: a second upload was started while the first was being
\* processed, and the calls of both hold the same worker
C15_TwoUploadsShareWorker ==
    \E r, q \in 1..MaxUploads :
        /\ r # q
        /\ run[r].pc \in {"ocr", "recognizing"}
        /\ run[q].pc \in {"ocr", "recognizing"}
        /\ run[r].w # <<>>
        /\ run[r].w = run[q].w

-----------------------------------------------------------------------------
(* Progress: every external call eventually returns or throws *)

\* a step in which an await of upload r settles
Settles(r) ==
    \/ StartAnalysis(r)
    \/ AnalysisResolves(r)
    \/ TextLayerDone(r)
    \/ WorkerCreated(r)
    \/ ParamsSet(r)
    \/ OcrStart(r)
    \/ OcrDone(r)
    \/ \E outcome \in AiOutcomes : AiDone(r, outcome)
    \/ Join(r)

\* the scenarios in which progress is explored: one upload of any document
\* with every failure of the libraries, edits, and the page closing at any
\* time; and up to MaxUploads overlapping uploads of a document whose
\* recognition fails
LiveEnvs ==
    {[files |-> FileNames, ai |-> AiOutcomes, faults |-> TRUE, uploads |-> 1,
      edits |-> MaxEdits, overlap |-> FALSE, unmount |-> TRUE],
     [files |-> {"broken.png"}, ai |-> FewAiOutcomes, faults |-> TRUE,
      uploads |-> MaxUploads, edits |-> 0, overlap |-> TRUE, unmount |-> FALSE]}

InitLive ==
    /\ impl \in Impls
    /\ env \in LiveEnvs
    /\ PipelineInit
    /\ EngineIdle
    /\ AnalyzerIdle
    /\ ProcessorIdle

\* the pipeline with the promise that no await of an upload stays pending
\* forever
SpecLive ==
    InitLive /\ [][Next]_vars /\ \A r \in 1..MaxUploads : WF_vars(Settles(r))

\* handleFileUpload(r) is in progress
InProgress(r) == run[r].pc \notin {"idle", "done"}

\* InvoiceForm is rendered with onDataUpdate whatever the processing state:
\* an edit is taken (as long as the scenario has edits left)
FormEditable ==
    edits < env.edits
        => ENABLED (\E updatedData \in EditChoices : handleDataUpdate(updatedData))

\* C16: after every upload, whether its processing succeeds or throws at
\* any step, the page eventually leaves the processing state: the upload
\* has settled, isProcessing is false, the progress is reset to 0, and the
\* form takes edits (unless the page was closed meanwhile).
C16_UploadEventuallySettles ==
    \A r \in 1..MaxUploads :
        (mounted /\ InProgress(r))
            ~> (~mounted \/ (/\ run[r].pc = "done"
                             /\ ~isProcessing
                             /\ processingProgress = 0
                             /\ FormEditable))

\* C16 witness: an upload that threw has settled and the page, still
\* open, shows no processing
C16_SettledAfterThrow ==
    /\ mounted
    /\ last.upload > 0 /\ last.threw
    /\ run[last.upload].pc = "done"
    /\ ~isProcessing
    /\ processingProgress = 0

-----------------------------------------------------------------------------
(* Text similarity *)

\* C17: the similarity calculateTextSimilarity returned for a pair of texts
\* is the one it returns for the pair swapped (texts of equal length
\* included), is an integer from 0 to 100, and is 100 when both texts are
\* the same nonempty text.
C17_SimilaritySymmetricAndBounded ==
    simResult # <<>> =>
        \E a \in {simTexts[1][1]} : \E b \in {simTexts[1][2]} :
            /\ simResult[1] = calculateTextSimilarity(b, a)
            /\ simResult[1] \in 0..100
            /\ (a = b /\ a # <<>>) => simResult[1] = 100

\* C17 witness: two different texts of the same length were compared and
\* are partly alike
C17_EqualLengthCompared ==
    /\ simResult # <<>>
    /\ Len(simTexts[1][1]) = Len(simTexts[1][2])
    /\ simTexts[1][1] # simTexts[1][2]
    /\ simResult[1] \in 1..99

-----------------------------------------------------------------------------
(* VIN rule, over SpecScore *)

\* C18: when the analysed FieldSet has a vin whose length is not 17, the
\* assessment contains a critical indicator on 'vin' of severity 9; when
\* the vin is absent or has exactly 17 characters, the assessment has no
\* indicator on 'vin'.
C18_VinIndicatorExactlyOnWrongLength ==
    engResult # <<>> =>
        IF Get(engData, "vin") # <<>> /\ Len(Get(engData, "vin")) # 17
        THEN HasIndicator(engResult[1].fraudIndicators, "critical", "vin", 9)
        ELSE ~HasFieldIndicator(engResult[1].fraudIndicators, "vin")

\* C18 witness: a FieldSet with a VIN of 18 characters was analysed and the
\* assessment has the indicator
C18_LongVinAnalysed ==
    /\ engResult # <<>>
    /\ Len(Get(engData, "vin")) = 18
    /\ HasIndicator(engResult[1].fraudIndicators, "critical", "vin", 9)

-----------------------------------------------------------------------------
(* The score formula, over SpecScore *)

\* the flat confidence penalty, in points: 0 when the confidence is
\* undefined or at least 70, 10 from 50 up to 70, 16 below 50
FlatPenalty(confidence) ==
    IF confidence = <<>> THEN 0
    ELSE IF confidence[1] >= 70 THEN 0
    ELSE IF confidence[1] >= 50 THEN 10
    ELSE 16

\* 100 - 2*S_math - 1.5*S_business - P - S_format - 1.2*S_integrity, in
\* tenths of a point
WeightedScore(m, b, P, f, g) ==
    1000 - 20 * SumSeverity(m) - 15 * SumSeverity(b) - 10 * P
         - 10 * SumSeverity(f) - 12 * SumSeverity(g)

\* C19: the fraud score is 100 minus twice the severities of the math
\* indicators, 1.5 times those of the business indicators, the flat
\* confidence penalty, the severities of the format indicators and 1.2
\* times those of the integrity indicators, clamped to [0, 100]; and the
\* indicator list is the math, business, confidence, format and integrity
\* indicators in this order, the integrity indicators being the document
\* analysis' list as it is, repeated findings included.
C19_ScoreFormulaAndIndicatorOrder ==
    engResult # <<>> =>
        \E m \in {validateMath(engData)} :
        \E b \in {validateBusinessLogic(engData)} :
        \E c \in {confidenceIssues(engConf)} :
        \E f \in {validateFormats(engData)} :
        \E g \in {IF engDoc = <<>> THEN <<>> ELSE engDoc[1].suspiciousIndicators} :
        \E raw \in {WeightedScore(m, b, FlatPenalty(engConf), f, g)} :
            /\ engResult[1].fraudScore =
                  (IF raw < 0 THEN 0 ELSE IF raw > 1000 THEN 1000 ELSE raw)
            /\ engResult[1].fraudIndicators = m \o b \o c \o f \o g
            /\ Len(c) = (IF FlatPenalty(engConf) = 0 THEN 0 ELSE 1)

\* C19 witness: an analysis with indicators of all five groups, the same
\* integrity finding twice, and a score above the floor
C19_AllGroupsWithRepeatedFinding ==
    /\ engResult # <<>>
    /\ validateMath(engData) # <<>>
    /\ validateBusinessLogic(engData) # <<>>
    /\ confidenceIssues(engConf) # <<>>
    /\ validateFormats(engData) # <<>>
    /\ engDoc # <<>>
    /\ Len(engDoc[1].suspiciousIndicators) = 2
    /\ engDoc[1].suspiciousIndicators[1] = engDoc[1].suspiciousIndicators[2]
    /\ engResult[1].fraudScore > 0

-----------------------------------------------------------------------------
(* Absent amounts in the balance check, over SpecScore *)

\* the rule on the balance has an operand that holds no amount: deposit or
\* tradeInValue is absent or does not parse
BalanceOperandMissing(data) ==
    ~AmountGiven(data, "deposit") \/ ~AmountGiven(data, "tradeInValue")

\* C20: an absent or unparsable deposit or tradeInValue is never replaced
\* by zero in the balance check: with such an operand missing, the engine
\* reports no balance error computed from totalCost minus a substituted 0.
C20_AbsentAmountNeverZero ==
    (engResult # <<>> /\ BalanceOperandMissing(engData))
        => ~HasFieldIndicator(engResult[1].fraudIndicators, "balanceOwing")

\* C20 case: an invoice of total 50000 and balance owing 35000 whose
\* deposit reads 'n/a' and whose trade-in value is absent was analysed, and
\* the assessment reports a balance error (against 50000 - 0 - 0)
C20_UnparsableDepositTakenAsZero ==
    /\ engResult # <<>>
    /\ Get(engData, "deposit") # <<>>
    /\ ~AmountGiven(engData, "deposit")
    /\ Get(engData, "tradeInValue") = <<>>
    /\ AmountOrZero(engData, "totalCost") = 5000000
    /\ AmountOrZero(engData, "balanceOwing") = 3500000
    /\ HasIndicator(engResult[1].fraudIndicators, "critical", "balanceOwing", 10)

-----------------------------------------------------------------------------
(* No retries within one pipeline run *)

\* the recognitions of a run: at most a fast one followed by a thorough one
AtMostTwoPasses(passes) ==
    /\ Len(passes) <= 2
    /\ Len(passes) >= 1 => passes[1].mode = "fast"
    /\ Len(passes) = 2 => passes[2].mode = "thorough"

\* C21: within one processInvoice call, worker.recognize is called at most
\* twice (one fast pass and at most one thorough pass) and the AI extraction
\* service is invoked at most once, on every path, the failing ones
\* included.
C21_AtMostTwoPassesOneAiCall ==
    /\ \A r \in 1..MaxUploads :
           AtMostTwoPasses(run[r].passes) /\ run[r].aiCalls <= 1
    /\ AtMostTwoPasses(last.passes) /\ last.aiCalls <= 1

\* C21 witness: a run that recognized twice and whose one AI call failed
\* has returned (with the fallback parser's fields)
C21_TwoPassesAndFailedAiCall ==
    /\ last.upload > 0 /\ ~last.threw
    /\ Len(last.passes) = 2
    /\ last.aiCalls = 1
    /\ AiFailed(last.ai[1])

-----------------------------------------------------------------------------
(* A failed text layer step *)

\* the text layer step of run r failed, a worker is there, and the next
\* thing is the rendering of page 1 of a document whose pages render
OcrAfterFailedTextLayer(r) ==
    /\ run[r].pc = "ocr"
    /\ run[r].layer = "failed"
    /\ run[r].w # <<>>
    /\ File(run[r].file).pdfError \notin {"load", "page"}

\* C22: when reading the text layer of a PDF throws, the text layer step
\* returns null instead of throwing (the run is not ended by that step),
\* and the run goes on to recognize the rendered page: it does not fail for
\* the failure of the text layer step.
C22_TextLayerFailureFallsBackToOcr ==
    [][\A r \in 1..MaxUploads :
          /\ (run[r].pc = "textLayer" /\ run'[r].pc # "textLayer")
                => run'[r].pc # "done"
          /\ (OcrAfterFailedTextLayer(r) /\ run'[r].pc # "ocr")
                => run'[r].pc = "recognizing"]_vars

\* C22 case: the text content of a PDF could not be read, the text layer
\* step returned null, and the run is on the OCR path with a worker
C22_OnOcrPathAfterFailedTextLayer ==
    \E r \in 1..MaxUploads :
        /\ OcrAfterFailedTextLayer(r)
        /\ run[r].file = "garbled.pdf"

-----------------------------------------------------------------------------
(* The comparison with the text layer, over SpecAnalyzer *)

\* the indicators of the list on 'text-consistency'
TextConsistencyIndicators(indicators) ==
    {i \in 1..Len(indicators) : indicators[i].field = "text-consistency"}

\* C23: compareOcrWithTextLayer returns a 'text-consistency' mismatch
\* indicator exactly when a text layer is given and the similarity of the
\* normalized texts is below 70, of severity 8 when the similarity is below
\* 50 and 6 otherwise; with no text layer it returns similarity 100 and no
\* indicators.
C23_TextMismatchExactlyBelow70 ==
    cmpResult # <<>> =>
        \E ocrText \in {simTexts[1][1]} : \E textLayerText \in {simTexts[1][2]} :
        \E found \in {TextConsistencyIndicators(cmpResult[1].indicators)} :
            IF textLayerText = <<>>
            THEN cmpResult[1] = [similarity |-> 100, indicators |-> <<>>]
            ELSE \E similarity \in {calculateTextSimilarity(normalizeText(ocrText),
                                                            normalizeText(textLayerText))} :
                    /\ cmpResult[1].similarity = similarity
                    /\ found # {} <=> similarity < 70
                    /\ Cardinality(found) <= 1
                    /\ \A i \in found :
                          /\ cmpResult[1].indicators[i].type = "text-layer-mismatch"
                          /\ cmpResult[1].indicators[i].severity =
                                (IF similarity < 50 THEN 8 ELSE 6)

\* C23 witness: a text was compared with a text layer to which it is
\* between 50 and 69 percent similar, and the mismatch has severity 6
C23_MismatchOfSeverity6 ==
    /\ cmpResult # <<>>
    /\ simTexts[1][2] # <<>>
    /\ cmpResult[1].similarity \in 50..69
    /\ \E i \in 1..Len(cmpResult[1].indicators) :
          /\ cmpResult[1].indicators[i].field = "text-consistency"
          /\ cmpResult[1].indicators[i].severity = 6

-----------------------------------------------------------------------------
(* Integrity rules, over SpecAnalyzer *)

\* analyzeDocument ran the metadata rules on docFile, whose metadata carry
\* a modification time later than the analysis time
FutureModificationAnalysed ==
    /\ docResult # <<>>
    /\ docFile[1].isPdf
    /\ docFile[1].pdfError # "load"
    /\ docFile[1].meta.modificationDate # <<>>
    /\ docFile[1].meta.modificationDate[1] > NowHours

\* C24: whenever the PDF metadata carry a modification time later than the
\* analysis time, the analysis has the 'modification date is in the future'
\* indicator of severity 8, with or without a creation time.
C24_FutureModificationAlwaysFlagged ==
    FutureModificationAnalysed =>
        HasIndicator(docResult[1].suspiciousIndicators,
                     "metadata-tampering", "modification-date", 8)

\* C24 case: a PDF with a modification time in the future and no creation
\* time was analysed, and the analysis has no indicator on the
\* modification date
C24_FutureModificationWithoutCreation ==
    /\ FutureModificationAnalysed
    /\ docFile[1].meta.creationDate = <<>>
    /\ ~HasFieldIndicator(docResult[1].suspiciousIndicators, "modification-date")


\* the number of indicators of the list on a field
CountField(indicators, f) ==
    Cardinality({i \in 1..Len(indicators) : indicators[i].field = f})

\* the fields that one rule each writes
OneRuleFields ==
    {"software-signature", "text-alignment", "font-variety", "font-type",
     "missing-metadata", "document-title", "document-structure", "file-timestamp"}

\* C25: each integrity rule gives zero or one indicator per analysed
\* document: the result holds at most one indicator of each rule, so at
\* most one on the software signature, even when creator and producer both
\* name a listed tool, and at most one on the text alignment, even when
\* several fonts exceed the variance bound.
C25_AtMostOneIndicatorPerRule ==
    docResult # <<>> =>
        \A f \in OneRuleFields : CountField(docResult[1].suspiciousIndicators, f) <= 1

\* C25 case: a PDF whose creator and producer both name a listed tool and
\* which has two fonts of scattered lines was analysed to the end, and the
\* result has two indicators on each of the two fields
C25_TwoIndicatorsOfOneRule ==
    /\ docResult # <<>>
    /\ docFile[1].pdfError = "none"
    /\ CountField(docResult[1].suspiciousIndicators, "software-signature") = 2
    /\ CountField(docResult[1].suspiciousIndicators, "text-alignment") = 2

-----------------------------------------------------------------------------
(* Overlapping uploads and what the page shows *)

\* a second document was uploaded, every run has finished, the page is
\* open, and the run of the most recently uploaded document returned
AllRunsFinished ==
    /\ mounted
    /\ uploads >= 2
    /\ \A r \in 1..MaxUploads : run[r].pc \in {"idle", "done"}
    /\ last.newest # <<>>
    /\ last.newest[1].upload = uploads
    /\ ~last.newest[1].threw

\* C26: when a second document is uploaded while the first is still being
\* processed, then once both runs have finished the page shows the fields,
\* the confidence and the fraud assessment derived from the most recently
\* uploaded document (the one in uploadedFile), whichever run finished
\* last.
C26_NewestUploadIsDisplayed ==
    AllRunsFinished =>
        /\ uploadedFile = <<last.newest[1].file>>
        /\ pageConfidence = last.newest[1].result[1].confidence
        /\ invoiceData.fraud = last.newest[1].fraud
        /\ \A k \in DOMAIN last.newest[1].result[1].data :
              Get(invoiceData.fields, k) = last.newest[1].result[1].data[k]

\* C26 case: two different documents were uploaded one during the other,
\* both runs returned, the run of the first finished last, and the page
\* shows the assessment of the first document next to the second file
C26_OlderRunFinishedLast ==
    /\ AllRunsFinished
    /\ last.upload < uploads
    /\ ~last.threw
    /\ last.file # last.newest[1].file
    /\ uploadedFile = <<last.newest[1].file>>
    /\ invoiceData.fraud = last.fraud
    /\ invoiceData.fraud # last.newest[1].fraud


\* a document was processed after another one: its run is the one that
\* finished last, it returned, and nothing is in progress
LaterDocumentProcessed ==
    /\ mounted
    /\ uploads >= 2
    /\ \A r \in 1..MaxUploads : run[r].pc \in {"idle", "done"}
    /\ last.upload = uploads
    /\ ~last.threw
    /\ edits = 0

\* the displayed fields that are not empty and are not what the last run
\* extracted
LeftoverFields ==
    {k \in DOMAIN invoiceData.fields :
        /\ invoiceData.fields[k] # <<>>
        /\ Get(last.result[1].data, k) # invoiceData.fields[k]}

\* C27: after a document B was processed following a document A (and no
\* edit was made), no field value extracted from A remains displayed: every
\* non-empty displayed field is of B's extraction result, and so the
\* displayed fraud assessment is the engine's result on the displayed
\* fields.
C27_NoFieldOfEarlierDocumentRemains ==
    LaterDocumentProcessed =>
        /\ LeftoverFields = {}
        /\ invoiceData.fraud =
              <<analyzeInvoice(invoiceData.fields, <<pageConfidence>>,
                               last.result[1].documentAnalysis)>>

\* C27 case: B was processed after A had been processed to its end, and
\* the page shows a field that B's extraction did not give
C27_FieldOfEarlierDocumentDisplayed ==
    /\ LaterDocumentProcessed
    /\ last.newest # <<>>
    /\ LeftoverFields # {}
    /\ invoiceData.fraud = last.fraud

-----------------------------------------------------------------------------
(* The worker initializeWorker returns *)

\* run r holds the worker initializeWorker returned to it
HoldsWorker(r) == run[r].pc \in {"ocr", "recognizing"} /\ run[r].w # <<>>

\* C28: every worker that initializeWorker returns has had its engine
\* parameters set: when setParameters failed on the first initialization,
\* no later call is given that unconfigured worker.
C28_ReturnedWorkerIsConfigured ==
    \A r \in 1..MaxUploads :
        HoldsWorker(r) => workers[run[r].w[1]] # "unconfigured"

\* C28 case: setParameters failed during an upload, which threw; the next
\* upload, started afterwards, was given the same worker, unconfigured
C28_UnconfiguredWorkerAfterFailure ==
    /\ ~env.overlap
    /\ last.upload > 0 /\ last.threw
    /\ \E r \in 1..MaxUploads :
          /\ r > last.upload
          /\ HoldsWorker(r)
          /\ workers[run[r].w[1]] = "unconfigured"

-----------------------------------------------------------------------------
(* The assessment of a fallback result.                                    *)

\* the settled upload's fields came from the fallback parser: the AI step
\* failed and processInvoice returned them with a confidence of 60
FallbackScored == Scored /\ AiFailed(last.ai[1]) /\ last.result[1].confidence = 60

\* C29: whenever the fields of an upload come from the fallback parser
\* (returned confidence 60), the assessment the upload handler computes
\* contains the 'general' low-confidence warning of severity 5, and its
\* fraud score is at most 90, whatever the field values are.
C29_FallbackAlwaysWarnedAndCapped ==
    (Scored /\ AiFailed(last.ai[1])) =>
        /\ HasIndicator(last.fraud[1].fraudIndicators, "warning", "general", 5)
        /\ last.fraud[1].fraudScore <= 900

\* a fallback result with further findings was assessed: the warning is
\* one indicator among several and the score lies below 90
C29_FallbackWithOtherFindings ==
    /\ FallbackScored
    /\ Len(last.fraud[1].fraudIndicators) > 1
    /\ last.fraud[1].fraudScore < 900

-----------------------------------------------------------------------------
(* DocumentProcessor.processDocument: the choice between synchronous and   *)
(* asynchronous processing. The steps that follow the choice are kept to   *)
(* what the caller sees of them: the mode, the status and the confidence   *)
(* or the estimate that come back.                                         *)

SYNC_THRESHOLD_MS == 10000
MAX_PAGES_SYNC == 3

\* the longest PDF of the catalogue, in pages
MaxPages == 20

\* where the text of a PDF lies: the items of page n under each layout
PageLayouts == {"blank", "spaces", "ten", "first", "third", "fourth"}

\* "Tax Invoice" (11 characters when joined)
ItemsEleven == <<<<"T", "a", "x">>, <<"I", "n", "v", "o", "i", "c", "e">>>>

\* "Total due:" (10 characters when joined)
ItemsTen == <<<<"T", "o", "t", "a", "l">>, <<"d", "u", "e", ":">>>>

PageItems(layout, n) ==
    CASE layout = "blank"  -> <<>>
      [] layout = "spaces" -> <<<<" ">>, <<" ", " ">>>>
      [] layout = "ten"    -> ItemsTen
      [] layout = "first"  -> IF n = 1 THEN ItemsEleven ELSE <<>>
      [] layout = "third"  -> IF n = 3 THEN ItemsEleven ELSE <<>>
      [] layout = "fourth" -> IF n = 4 THEN ItemsEleven ELSE <<>>

\* the files given to processDocument: an image, or a PDF with its page
\* count, its layout, and the pdf.js call that throws on it, if any
ProcessorFiles ==
    {[isPdf |-> FALSE, pdfError |-> "none", numPages |-> 1, layout |-> "blank"]}
    \cup
    {[isPdf |-> TRUE, pdfError |-> e, numPages |-> n, layout |-> l] :
        e \in {"none", "load", "page"}, n \in 1..MaxPages, l \in PageLayouts}

\* Array.prototype.join(' ')
RECURSIVE JoinSpace(_)
JoinSpace(items) ==
    IF items = <<>> THEN <<>>
    ELSE IF Len(items) = 1 THEN items[1]
    ELSE items[1] \o <<" ">> \o JoinSpace(Tail(items))

\* hasTextLayer: some page among the first three has items whose joined and
\* trimmed text is longer than 10; false when pdf.js throws
hasTextLayer(file) ==
    IF file.pdfError # "none" THEN FALSE
    ELSE \E pageNum \in 1..Min(file.numPages, 3) :
            With(PageItems(file.layout, pageNum), LAMBDA items :
                /\ Len(items) > 0
                /\ Len(Trim(JoinSpace(items))) > 10)

\* getPageCount: 1 for an image and when the document does not load
getPageCount(file) ==
    IF ~file.isPdf THEN 1
    ELSE IF file.pdfError = "load" THEN 1
    ELSE file.numPages

\* Math.ceil(a / b) for non-negative a and positive b
CeilDiv(a, b) == (a + b - 1) \div b

estimateProcessingTime(file, hasText, pageCount) ==
    500
    + (IF hasText THEN pageCount * 100 ELSE pageCount * 1000)
    + CeilDiv(pageCount * 1000, 1000) * 500

\* the variant that decides on the estimate alone
shouldProcessSyncByEstimate(estimatedTime, pageCount) ==
    estimatedTime < SYNC_THRESHOLD_MS

shouldProcessSync(estimatedTime, pageCount) ==
    estimatedTime < SYNC_THRESHOLD_MS /\ pageCount <= MAX_PAGES_SYNC

\* processDocument from the answer of hasTextLayer to its next await: the
\* estimate, the mode, and the call of processSynchronously or createJob
selectMode(rr, hasText) ==
    With(estimateProcessingTime(procFile[1], hasText, rr.pageCount), LAMBDA estimatedTime :
        With(IF shouldProcessSync(estimatedTime, rr.pageCount) THEN "sync" ELSE "async",
             LAMBDA mode :
                [rr EXCEPT !.hasText = hasText, !.estimatedTime = estimatedTime,
                           !.mode = mode, !.pc = mode]))

\* await this.getPageCount(file); an image needs no hasTextLayer call
ProcGetPageCount ==
    /\ procFile # <<>> /\ procRun.pc = "getPageCount"
    /\ \E rr \in {[procRun EXCEPT !.pageCount = getPageCount(procFile[1])]} :
          procRun' = IF procFile[1].isPdf THEN [rr EXCEPT !.pc = "hasTextLayer"]
                     ELSE selectMode(rr, FALSE)
    /\ UNCHANGED <<procFile, engVars, docVars, pageVars, pipeVars>>

\* await this.hasTextLayer(file)
ProcHasTextLayer ==
    /\ procFile # <<>> /\ procRun.pc = "hasTextLayer"
    /\ procRun' = selectMode(procRun, hasTextLayer(procFile[1]))
    /\ UNCHANGED <<procFile, engVars, docVars, pageVars, pipeVars>>

\* await this.processSynchronously(...): the extraction of the text throws,
\* or the result comes back with the confidence of the AI answer, or with
\* 60 from the fallback parser
processSynchronously(extracted, aiConfidence) ==
    /\ procFile # <<>> /\ procRun.pc = "sync"
    /\ procRun' =
          IF ~extracted THEN [procRun EXCEPT !.pc = "threw", !.status = "failed"]
          ELSE [procRun EXCEPT !.pc = "returned", !.status = "completed",
                               !.confidence =
                                   <<IF aiConfidence > 0 THEN aiConfidence ELSE 60>>]
    /\ UNCHANGED <<procFile, engVars, docVars, pageVars, pipeVars>>

\* createJob (which never throws), processAsynchronously started and not
\* awaited, and the tracking record returned
processAsynchronously ==
    /\ procFile # <<>> /\ procRun.pc = "async"
    /\ procRun' = [procRun EXCEPT !.pc = "returned", !.status = "processing",
                                  !.etaSeconds = <<CeilDiv(procRun.estimatedTime, 1000)>>]
    /\ UNCHANGED <<procFile, engVars, docVars, pageVars, pipeVars>>

InitProcessor ==
    /\ procFile \in {<<f>> : f \in ProcessorFiles}
    /\ procRun = [IdleProcRun EXCEPT !.pc = "getPageCount"]
    /\ impl = "ocrService"
    /\ env \in {e \in Envs : e.uploads = 1}
    /\ PipelineInit
    /\ EngineIdle
    /\ AnalyzerIdle

NextProcessor ==
    \/ ProcGetPageCount
    \/ ProcHasTextLayer
    \/ \E extracted \in BOOLEAN : \E aiConfidence \in {0, 85} :
          processSynchronously(extracted, aiConfidence)
    \/ processAsynchronously

SpecProcessor == InitProcessor /\ [][NextProcessor]_vars

\* processDocument has chosen its mode
ModeChosen == procRun.mode # ""

\* C30: processDocument chooses the synchronous mode exactly when the page
\* count is at most 3: for such a count the estimate, 500 + pages * (100
\* with a text layer, 1000 without) + pages * 500, is below the threshold
\* of 10000 ms, so neither the estimate nor the text layer changes the
\* choice.
C30_SyncExactlyUpToThreePages ==
    ModeChosen =>
        /\ procRun.mode = "sync" <=> procRun.pageCount <= 3
        /\ procRun.estimatedTime =
              500 + procRun.pageCount * (IF procRun.hasText THEN 100 ELSE 1000)
                  + procRun.pageCount * 500
        /\ procRun.pageCount <= 3 => procRun.estimatedTime < 10000

\* a PDF of four pages with a text layer was sent to the asynchronous mode
\* although its estimate is below the threshold
C30_FourPagesWithTextAsync ==
    /\ ModeChosen
    /\ procRun.pageCount = 4 /\ procRun.hasText
    /\ procRun.estimatedTime < SYNC_THRESHOLD_MS
    /\ procRun.mode = "async"

====
